---- MODULE Spec2Model ----
(***************************************************************************)
(* Audio-generation pipeline of llm-crl: the Submission Endpoint           *)
(* (src/unnamed/part_001), the Worker (src/unnamed/part_000), the Refresh  *)
(* Endpoint (src/backend/aws/lambda/resign-listening-url/index.js), the    *)
(* page src/src/pages/RlItemDetail.tsx (polling effect, audio controls,    *)
(* delete), the getters of src/src/lib/supabase.ts that share a lookup,    *)
(* and the rows of rl_items / l_items / tokens and the S3 bucket they      *)
(* share.                                                                  *)
(*                                                                         *)
(* Every `await` of a handler is one atomic step; the synchronous code     *)
(* that follows an await up to the next await belongs to the same step.    *)
(* A store call either takes effect or returns an error; which of the two  *)
(* the handler notices is taken from the code (`if (x.error) throw`).      *)
(*                                                                         *)
(* Spec          : submissions and the workers they dispatch               *)
(* SpecEndpoints : submission and refresh requests over rows left by jobs  *)
(* SpecTokens    : the token steps of several jobs of one user             *)
(* SpecObserver  : the page and its polling effect (SpecObserverFair with  *)
(*                 timeouts that fire and requests that return)            *)
(* SpecResolve   : the page resolving the URL of an audio as time passes   *)
(* SpecPlayer    : the page and the handlers of its audio controls         *)
(* SpecResign    : successive refresh requests over any row of l_items     *)
(* SpecOwner     : the owner's delete next to the pipeline's writes        *)
(* SpecNavigate  : the page with the id each poll in flight was made for   *)
(* SpecSubmit    : the page with the answer its submission has taken       *)
(* SpecCache     : calls of the getters of lib/supabase.ts                 *)
(***************************************************************************)
EXTENDS Integers, FiniteSets, Sequences, TLC

\* ---------------------------------------------------------------- bounds
MaxReqs == 2                    \* submission requests in one behaviour
MaxRefresh == 2                 \* refresh requests in one behaviour
MaxJobs == 3                    \* jobs of one user followed through the token ledger
MaxSessions == 2                \* runs of the client's polling effect in one behaviour
MaxErrs == 2                    \* store-error polls of a session are counted up to here
MaxTicks == 2                   \* advances of the browser's clock in one behaviour
MaxCalls == 3                   \* calls of the getters of lib/supabase.ts in one behaviour
MaxDownloads == 1               \* download clicks that can be in progress together

\* ------------------------------------------------------- program constants
Null == -1                      \* JS null in rl_items.l_item_id
ZERO_UUID == 0                  \* "00000000-0000-0000-0000-000000000000"
ZERO_NODASH == -2               \* "00000000000000000000000000000000"
SUBMIT_MIN_TOKENS_REQUIRED == 1 \* default of the Submission Endpoint
WORKER_MIN_TOKENS_REQUIRED == 7 \* default of the Worker

Reqs == 1..MaxReqs              \* request r dispatches worker r
Items == {1}                    \* rl_items.id
Users == {1}                    \* tokens.user_id / JWT subject
InitBalances == { <<0, 0>>, <<0, 1>>, <<3, 10>>, <<10, 10>> }

NoRow == [uid |-> Null, rl_item_id |-> 0, s3_key |-> Null,
          public_url |-> "none", is_deleted |-> FALSE]
Unread == -3                    \* the request has not read l_item_id

VARIABLES
  rl_items,   \* [Items -> l_item_id]            the audioRef column
  r_item,     \* [Items -> BOOLEAN]              reading text present
  l_items,    \* [Reqs -> row | NoRow]           AudioItem rows by uid
  s3,         \* set of uids whose files/<uid>.aac was uploaded
  tokens,     \* [Users -> [free, paid]]
  req,        \* [Reqs -> state of a submission request]
  wk,         \* [Reqs -> state of the worker that request dispatched]
  owner_id,   \* [Items -> user]                rl_items.owner_id
  rs,         \* [Refreshes -> state of a refresh request]
  use_public_acl, \* USE_PUBLIC_ACL === "true" in the Refresh Endpoint's environment
  job,        \* [Jobs -> the token steps of a job]
  cfg,        \* MIN_TOKENS_REQUIRED as configured for each of the two functions
  page,       \* the RlItemDetail component: "shown" | "gone"
  rlItem,     \* its state rlItem (NoItem for null)
  eff,        \* [Sessions -> a run of its polling effect]
  lItemPublicUrl,     \* its state lItemPublicUrl
  creatingListening,  \* its state creatingListening
  resp,       \* status of the answer handleCreateListening has just taken
  polled,     \* [Sessions -> the rl_items id of the select a run has in flight]
  now,        \* Date.now() of the browser, in ms
  localStorage,       \* the value stored under `litem:<RealId>`
  resigningRef,       \* resigningRef.current
  audio,      \* the call of handleAudioError in progress
  download,   \* [Downloads -> a call of handleDownload]
  del,        \* the call of handleConfirmDelete in progress
  rl_exists,  \* [Items -> BOOLEAN]  the rl_items row has not been deleted
  delete_requested,   \* [Items -> BOOLEAN]  rl_items.delete_requested
  cached,     \* [Keys -> value]  cachedUserId, cachedSessionToken and the
              \* two maps of cached list ids of lib/supabase.ts
  promise,    \* [Keys -> lookup] getUserPromise, getSessionTokenPromise and
              \* the two maps of promises
  lookup,     \* [Calls -> the async function a call has started]
  call        \* [Calls -> a call of one of the four getters]

refreshVars == <<rs, use_public_acl>>
ledgerVars == <<job, cfg>>
playerVars == <<now, localStorage, resigningRef, audio, download>>
ownerVars == <<del, rl_exists, delete_requested>>
libVars == <<cached, promise, lookup, call>>
clientVars == <<page, rlItem, eff, lItemPublicUrl, creatingListening, resp,
                polled, playerVars, ownerVars, libVars>>
vars == <<rl_items, r_item, l_items, s3, tokens, req, wk, owner_id,
          refreshVars, ledgerVars, clientVars>>
store == <<rl_items, r_item, l_items, s3, tokens>>
\* what no step of the Submission Endpoint or the Worker touches
rest == <<owner_id, refreshVars, ledgerVars, clientVars>>

\* newUid = uuidv4(): fresh per worker execution
newUid(w) == w

IsReal(l) == l /= Null /\ l /= ZERO_UUID

InitReq == [pc |-> "idle", body |-> "none", cred |-> "none", item |-> 0,
            user |-> 0, ref |-> Unread, tok |-> "unread", total |-> 0,
            inv |-> "no", status |-> 0, error |-> "none"]

\* pc, item, user, text, free, paid are the worker's own state; while the
\* handler runs, sent (outcome of its sentinel write), tts (outcome of its
\* synthesis call), failed (the first stage that returned an error) and bal0
\* (free + paid when the handler started) record what it has done
InitWk == [pc |-> "none", item |-> 0, user |-> 0, text |-> FALSE,
           free |-> 0, paid |-> 0,
           sent |-> "no", tts |-> "no", failed |-> "none", bal0 |-> 0]

Refreshes == 1..MaxRefresh
\* a refresh request before it arrives; prior records how many refresh
\* requests had been answered when it arrived
InitRs == [pc |-> "idle", body |-> "none", cred |-> "none", uid |-> 0, read |-> FALSE,
           status |-> 0, error |-> "none", url |-> "none", prior |-> 0]

\* a job before its submission reads the balance; rfree, rpaid record the
\* balance its worker read
Jobs == 1..MaxJobs
InitJob == [pc |-> "none", free |-> 0, paid |-> 0, rfree |-> 0, rpaid |-> 0]
DefaultCfg == [submit |-> SUBMIT_MIN_TOKENS_REQUIRED,
               worker |-> WORKER_MIN_TOKENS_REQUIRED]

\* the closure of one run of the polling effect (mounted, timer, pollCount,
\* currentInterval) and where its async calls stand (pc); errs records how
\* many of its polls returned a store error, got that one read a real id,
\* late that one returned after the cleanup had run
Sessions == 1..MaxSessions
NoItem == [id |-> 0, l_item_id |-> Null]
InitEff == [st |-> "unused", mounted |-> FALSE, timer |-> FALSE,
            pollCount |-> 0, currentInterval |-> 5000, pc |-> "idle",
            errs |-> 0, got |-> FALSE, late |-> FALSE, sawNull |-> FALSE]

\* the value of a localStorage key: absent, a string JSON.parse throws on,
\* or the JSON text of an object {public_url, expires_at}
NoEntry == [kind |-> "missing", public_url |-> "none", expires_at |-> Null]
Garbage == [kind |-> "garbage", public_url |-> "none", expires_at |-> Null]

\* a handler of the audio player before it is called; uid is the l_item_id
\* of the render the handler belongs to
InitHandler == [pc |-> "idle", uid |-> Null]
Downloads == 1..MaxDownloads

\* lib/supabase.ts: the getters that share a lookup. A key is the place of
\* a getter in Getters; the two list getters are followed for one userId
Getters == <<"getCachedUserId", "getCachedSessionAccessToken",
             "getPrivateVocabListId", "getPrivateRlListId">>
Keys == 1..Len(Getters)
NoKey == 0
Calls == 1..MaxCalls
NoLookup == [key |-> NoKey, pc |-> "none", result |-> Null]
NoCall == [key |-> NoKey, pc |-> "idle", p |-> Null, value |-> Null]
InitLib ==
  /\ cached = [k \in Keys |-> Null]
  /\ promise = [k \in Keys |-> Null]
  /\ lookup = [c \in Calls |-> NoLookup]
  /\ call = [c \in Calls |-> NoCall]

InitRefresh ==
  /\ rs = [k \in Refreshes |-> InitRs]
  /\ use_public_acl = FALSE
InitLedger ==
  /\ job = [j \in Jobs |-> InitJob]
  /\ cfg = DefaultCfg
InitClient ==
  /\ page = "shown"
  /\ rlItem = NoItem
  /\ eff = [s \in Sessions |-> InitEff]
  /\ lItemPublicUrl = "none"
  /\ creatingListening = FALSE
  /\ resp = Null
  /\ polled = [s \in Sessions |-> 0]
  /\ now = 0
  /\ localStorage = NoEntry
  /\ resigningRef = FALSE
  /\ audio = InitHandler
  /\ download = [d \in Downloads |-> InitHandler]
  /\ del = "idle"
  /\ rl_exists = [i \in Items |-> TRUE]
  /\ delete_requested = [i \in Items |-> FALSE]
  /\ InitLib

Init ==
  /\ owner_id = [i \in Items |-> 1]
  /\ InitRefresh /\ InitLedger /\ InitClient
  /\ rl_items = [i \in Items |-> Null]
  /\ r_item \in [Items -> BOOLEAN]
  /\ l_items = [u \in Reqs |-> NoRow]
  /\ s3 = {}
  /\ \E b \in InitBalances :
       tokens = [u \in Users |-> [free |-> b[1], paid |-> b[2]]]
  /\ req = [r \in Reqs |-> InitReq]
  /\ wk = [r \in Reqs |-> InitWk]

Total(u) == tokens[u].free + tokens[u].paid

\* ------------------------------------------------ Submission Endpoint
Bodies == {"missing", "malformed", "nofields", "ok"}
Creds == {"invalid", "nosub", "valid"}

Respond(rq, code, msg) == [rq EXCEPT !.pc = "done", !.status = code, !.error = msg]

\* variant of ValidateRequest without the `if (!user_id)` test
ValidateRequest_NoSubjectTest(body, cred) ==
  IF body = "missing" THEN <<400, "Request body is missing">>
  ELSE IF body = "malformed" THEN <<500, "internal_server_error">>
  ELSE IF body = "nofields" THEN <<400, "jwt_token and rl_item_id are required">>
  ELSE IF cred = "invalid" THEN <<401, "Invalid token">>
  ELSE <<0, "none">>

\* steps before the first store call: body, fields, jwt.verify, subject
ValidateRequest(body, cred) ==
  IF body = "missing" THEN <<400, "Request body is missing">>
  ELSE IF body = "malformed" THEN <<500, "internal_server_error">>
  ELSE IF body = "nofields" THEN <<400, "jwt_token and rl_item_id are required">>
  ELSE IF cred = "invalid" THEN <<401, "Invalid token">>
  ELSE IF cred = "nosub" THEN <<401, "Invalid token payload">>
  ELSE <<0, "none">>

\* variant of CheckLItem without the `l_item_id === ZERO_UUID` branch
CheckLItem_NoSentinelBranch(l) ==
  IF l /= Null /\ l /= ZERO_UUID /\ l /= ZERO_NODASH THEN <<409, "l_item already exists">>
  ELSE <<0, "none">>

\* step 3: the l_item_id conditions
CheckLItem(l) ==
  IF l /= Null /\ l /= ZERO_UUID /\ l /= ZERO_NODASH THEN <<409, "l_item already exists">>
  ELSE IF l = ZERO_UUID THEN <<409, "audio creation already in progress">>
  ELSE <<0, "none">>

\* variant of InsufficientTokens that compares the free tokens alone
InsufficientTokens_FreeOnly(free, paid) == free < SUBMIT_MIN_TOKENS_REQUIRED

\* step 4: totalAvailable < required
InsufficientTokens(free, paid) == free + paid < SUBMIT_MIN_TOKENS_REQUIRED

SubmitStart(r) ==
  /\ req[r].pc = "idle"
  /\ \A q \in Reqs : q < r => req[q].pc /= "idle"   \* requests are numbered in arrival order
  /\ \E body \in Bodies, cred \in Creds, i \in Items, u \in Users :
       /\ body \in {"missing", "malformed"} => cred = "invalid"
       /\ LET v == ValidateRequest(body, cred)
              rq == [req[r] EXCEPT !.body = body, !.cred = cred, !.item = i, !.user = u]
         IN req' = [req EXCEPT ![r] =
                      IF v[1] /= 0 THEN Respond(rq, v[1], v[2])
                      ELSE [rq EXCEPT !.pc = "fetchItem"]]
  /\ UNCHANGED <<store, wk>>
  /\ UNCHANGED rest

\* step 2 and 3: select l_item_id, r_item from rl_items
SubmitFetchItem(r) ==
  /\ req[r].pc = "fetchItem"
  /\ \E ok \in BOOLEAN :
       IF ~ok
       THEN req' = [req EXCEPT ![r] = Respond(@, 500, "DB error fetching rl_item")]
       ELSE LET l == rl_items[req[r].item]
                c == CheckLItem(l)
                rq == [req[r] EXCEPT !.ref = l]
            IN req' = [req EXCEPT ![r] =
                         IF c[1] /= 0 THEN Respond(rq, c[1], c[2])
                         ELSE [rq EXCEPT !.pc = "fetchTokens"]]
  /\ UNCHANGED <<store, wk>>
  /\ UNCHANGED rest

\* step 4: select free, paid from tokens
SubmitFetchTokens(r) ==
  /\ req[r].pc = "fetchTokens"
  /\ \E ok \in BOOLEAN :
       IF ~ok
       THEN req' = [req EXCEPT ![r] =
                      Respond([@ EXCEPT !.tok = "err"], 500, "DB error fetching tokens")]
       ELSE LET t == tokens[req[r].user]
                rq == [req[r] EXCEPT !.tok = "ok", !.total = t.free + t.paid]
            IN req' = [req EXCEPT ![r] =
                         IF InsufficientTokens(t.free, t.paid)
                         THEN Respond(rq, 402, "Insufficient tokens")
                         ELSE [rq EXCEPT !.pc = "invoke"]]
  /\ UNCHANGED <<store, wk>>
  /\ UNCHANGED rest

\* variant of SubmitInvoke that marks the item with the sentinel before it
\* invokes the worker
SubmitInvoke_SentinelFirst(r) ==
  /\ req[r].pc = "invoke"
  /\ \E ok \in BOOLEAN :
       IF ~ok
       THEN /\ req' = [req EXCEPT ![r] =
                         Respond([@ EXCEPT !.inv = "err"], 500, "internal_server_error")]
            /\ wk' = wk
       ELSE /\ req' = [req EXCEPT ![r] =
                         Respond([@ EXCEPT !.inv = "ok"], 200, "none")]
            /\ wk' = [wk EXCEPT ![r] =
                        [@ EXCEPT !.pc = "start", !.item = req[r].item,
                                  !.user = req[r].user,
                                  !.text = r_item[req[r].item]]]
  /\ rl_items' = [rl_items EXCEPT ![req[r].item] = ZERO_UUID]
  /\ UNCHANGED <<r_item, l_items, s3, tokens>>
  /\ UNCHANGED rest

\* step 5 and 6: lambda.invoke(InvocationType "Event"), then 200
SubmitInvoke(r) ==
  /\ req[r].pc = "invoke"
  /\ \E ok \in BOOLEAN :
       IF ~ok
       THEN /\ req' = [req EXCEPT ![r] =
                         Respond([@ EXCEPT !.inv = "err"], 500, "internal_server_error")]
            /\ wk' = wk
       ELSE /\ req' = [req EXCEPT ![r] =
                         Respond([@ EXCEPT !.inv = "ok"], 200, "none")]
            /\ wk' = [wk EXCEPT ![r] =
                        [@ EXCEPT !.pc = "start", !.item = req[r].item,
                                  !.user = req[r].user,
                                  !.text = r_item[req[r].item]]]
  /\ UNCHANGED store
  /\ UNCHANGED rest

\* ------------------------------------------------------------- Worker
\* the locals free, paid are dead once the handler has left the try block,
\* and nothing of an execution is left once the handler has returned
Fail(wr, stage) == IF wr.failed = "none" THEN [wr EXCEPT !.failed = stage] ELSE wr

Goto(w, p) ==
  IF p = "done"
  THEN [InitWk EXCEPT !.pc = p, !.item = wk[w].item, !.user = wk[w].user]
  ELSE IF p = "catch" THEN [wk[w] EXCEPT !.pc = p, !.free = 0, !.paid = 0]
  ELSE [wk[w] EXCEPT !.pc = p]

\* variant of Debit that takes from paid first and from free what remains
Debit_PaidFirst(free, paid, required) ==
  LET useFromPaid == IF paid < required THEN paid ELSE required
      remaining == required - useFromPaid
  IN <<free - remaining, paid - useFromPaid>>

\* token logic: useFromFree = min(free, required); remaining = required - useFromFree
Debit(free, paid, required) ==
  LET useFromFree == IF free < required THEN free ELSE required
      remaining == required - useFromFree
  IN <<free - useFromFree, paid - remaining>>

\* if (!user_id || !rl_item_id || !r_item) return;
WorkerMissingInputs(w) ==
  /\ wk[w].pc = "start"
  /\ ~wk[w].text
  /\ wk' = [wk EXCEPT ![w] = Goto(w, "done")]
  /\ UNCHANGED <<store, req>>
  /\ UNCHANGED rest

\* insert {uid: newUid, rl_item_id, is_deleted: false} into l_items
WorkerInsert(w) ==
  /\ wk[w].pc = "start"
  /\ wk[w].text
  /\ \E ok \in BOOLEAN :
       IF ok
       THEN /\ l_items' = [l_items EXCEPT ![newUid(w)] =
                             [uid |-> newUid(w), rl_item_id |-> wk[w].item,
                              s3_key |-> Null, public_url |-> "none",
                              is_deleted |-> FALSE]]
            /\ wk' = [wk EXCEPT ![w] =
                        [Goto(w, "sentinel") EXCEPT !.bal0 = Total(wk[w].user)]]
       ELSE /\ l_items' = l_items
            /\ wk' = [wk EXCEPT ![w] =
                        Fail([Goto(w, "catch") EXCEPT !.bal0 = Total(wk[w].user)],
                             "insert")]
  /\ UNCHANGED <<rl_items, r_item, s3, tokens, req>>
  /\ UNCHANGED rest

\* variant of WorkerSentinel that writes null where ZERO_UUID is meant
WorkerSentinel_WritesNull(w) ==
  /\ wk[w].pc = "sentinel"
  /\ \E ok \in BOOLEAN :
       IF ok
       THEN /\ rl_items' = [rl_items EXCEPT ![wk[w].item] = Null]
            /\ wk' = [wk EXCEPT ![w] = [Goto(w, "tts") EXCEPT !.sent = "applied"]]
       ELSE /\ rl_items' = rl_items
            /\ wk' = [wk EXCEPT ![w] =
                        Fail([Goto(w, "tts") EXCEPT !.sent = "rejected"], "sentinel")]
  /\ UNCHANGED <<r_item, l_items, s3, tokens, req>>
  /\ UNCHANGED rest

\* update rl_items set l_item_id = ZERO_UUID; the result is not inspected
WorkerSentinel(w) ==
  /\ wk[w].pc = "sentinel"
  /\ \E ok \in BOOLEAN :
       IF ok
       THEN /\ rl_items' = [rl_items EXCEPT ![wk[w].item] = ZERO_UUID]
            /\ wk' = [wk EXCEPT ![w] = [Goto(w, "tts") EXCEPT !.sent = "applied"]]
       ELSE /\ rl_items' = rl_items
            /\ wk' = [wk EXCEPT ![w] = Fail([Goto(w, "tts") EXCEPT !.sent = "rejected"], "sentinel")]
  /\ UNCHANGED <<r_item, l_items, s3, tokens, req>>
  /\ UNCHANGED rest

\* callOpenAITTS: throws when !resp.ok
callOpenAITTS(w) ==
  /\ wk[w].pc = "tts"
  /\ \E ok \in BOOLEAN :
       wk' = [wk EXCEPT ![w] =
                IF ok THEN [Goto(w, "upload") EXCEPT !.tts = "ok"]
                ELSE Fail([Goto(w, "catch") EXCEPT !.tts = "fail"], "tts")]
  /\ UNCHANGED <<store, req>>
  /\ UNCHANGED rest

\* uploadToS3: putObject under files/<newUid>.aac, then the URL
uploadToS3(w) ==
  /\ wk[w].pc = "upload"
  /\ \E ok \in BOOLEAN :
       IF ok
       THEN /\ s3' = s3 \cup {newUid(w)}
            /\ wk' = [wk EXCEPT ![w] = Goto(w, "litem")]
       ELSE /\ s3' = s3
            /\ wk' = [wk EXCEPT ![w] = Fail(Goto(w, "catch"), "upload")]
  /\ UNCHANGED <<rl_items, r_item, l_items, tokens, req>>
  /\ UNCHANGED rest

\* update l_items set s3_key, public_url where uid = newUid; result not inspected
WorkerUpdateLItem(w) ==
  /\ wk[w].pc = "litem"
  /\ \E ok \in BOOLEAN :
       IF ok
       THEN /\ l_items' = [l_items EXCEPT ![newUid(w)] =
                             IF @ = NoRow THEN @
                             ELSE [@ EXCEPT !.s3_key = newUid(w),
                                            !.public_url = "signed"]]
            /\ wk' = [wk EXCEPT ![w] = Goto(w, "link")]
       ELSE /\ l_items' = l_items
            /\ wk' = [wk EXCEPT ![w] = Fail(Goto(w, "link"), "litem")]
  /\ UNCHANGED <<rl_items, r_item, s3, tokens, req>>
  /\ UNCHANGED rest

\* update rl_items set l_item_id = newUid; result not inspected
WorkerLink(w) ==
  /\ wk[w].pc = "link"
  /\ \E ok \in BOOLEAN :
       IF ok
       THEN /\ rl_items' = [rl_items EXCEPT ![wk[w].item] = newUid(w)]
            /\ wk' = [wk EXCEPT ![w] = Goto(w, "tokfetch")]
       ELSE /\ rl_items' = rl_items
            /\ wk' = [wk EXCEPT ![w] = Fail(Goto(w, "tokfetch"), "link")]
  /\ UNCHANGED <<r_item, l_items, s3, tokens, req>>
  /\ UNCHANGED rest

\* select free, paid from tokens, then the debit arithmetic
WorkerFetchTokens(w) ==
  /\ wk[w].pc = "tokfetch"
  /\ \E ok \in BOOLEAN :
       wk' = [wk EXCEPT ![w] =
                IF ok
                THEN LET t == tokens[wk[w].user]
                         d == Debit(t.free, t.paid, WORKER_MIN_TOKENS_REQUIRED)
                     IN [Goto(w, "tokupdate") EXCEPT !.free = d[1], !.paid = d[2]]
                ELSE Fail(Goto(w, "catch"), "tokfetch")]
  /\ UNCHANGED <<store, req>>
  /\ UNCHANGED rest

\* update tokens set free, paid where user_id
WorkerUpdateTokens(w) ==
  /\ wk[w].pc = "tokupdate"
  /\ \E ok \in BOOLEAN :
       IF ok
       THEN /\ tokens' = [tokens EXCEPT ![wk[w].user] =
                            [free |-> wk[w].free, paid |-> wk[w].paid]]
            /\ wk' = [wk EXCEPT ![w] = Goto(w, "done")]
       ELSE /\ tokens' = tokens
            /\ wk' = [wk EXCEPT ![w] = Fail(Goto(w, "catch"), "tokupdate")]
  /\ UNCHANGED <<rl_items, r_item, l_items, s3, req>>
  /\ UNCHANGED rest

\* catch: update rl_items set l_item_id = null, then return
WorkerCatch(w) ==
  /\ wk[w].pc = "catch"
  /\ \E ok \in BOOLEAN :
       IF ok
       THEN rl_items' = [rl_items EXCEPT ![wk[w].item] = Null]
       ELSE rl_items' = rl_items
  /\ wk' = [wk EXCEPT ![w] = Goto(w, "done")]
  /\ UNCHANGED <<r_item, l_items, s3, tokens, req>>
  /\ UNCHANGED rest

Next ==
  \/ \E r \in Reqs : SubmitStart(r)
  \/ \E r \in Reqs : SubmitFetchItem(r)
  \/ \E r \in Reqs : SubmitFetchTokens(r)
  \/ \E r \in Reqs : SubmitInvoke(r)
  \/ \E w \in Reqs : WorkerMissingInputs(w)
  \/ \E w \in Reqs : WorkerInsert(w)
  \/ \E w \in Reqs : WorkerSentinel(w)
  \/ \E w \in Reqs : callOpenAITTS(w)
  \/ \E w \in Reqs : uploadToS3(w)
  \/ \E w \in Reqs : WorkerUpdateLItem(w)
  \/ \E w \in Reqs : WorkerLink(w)
  \/ \E w \in Reqs : WorkerFetchTokens(w)
  \/ \E w \in Reqs : WorkerUpdateTokens(w)
  \/ \E w \in Reqs : WorkerCatch(w)

Spec == Init /\ [][Next]_vars

\* =====================================================================
\* Properties
\* =====================================================================

\* a worker execution is in flight from the first statement of its handler
\* until the handler returns
InFlight(w) == wk[w].pc \notin {"none", "start", "done"}
Completes(w) == InFlight(w) /\ wk'[w].pc = "done"

\* C1: the audioRef of a ContentItem only ever changes by null -> sentinel,
\* sentinel -> real id, or sentinel -> null.
C1_AudioRefTransitions ==
  [][\A i \in Items :
       rl_items'[i] /= rl_items[i] =>
         \/ rl_items[i] = Null /\ rl_items'[i] = ZERO_UUID
         \/ rl_items[i] = ZERO_UUID /\ IsReal(rl_items'[i])
         \/ rl_items[i] = ZERO_UUID /\ rl_items'[i] = Null]_vars

\* C2: for every ContentItem at most one worker execution is in flight.
C2_OneInFlightPerItem ==
  \A i \in Items :
    Cardinality({w \in Reqs : InFlight(w) /\ wk[w].item = i}) <= 1

\* the two terminal outcomes of a job, over the state its last step leaves
OutcomeSuccess(w, ref, row, total, before) ==
  /\ ref = newUid(w)
  /\ row /= NoRow
  /\ total = before - WORKER_MIN_TOKENS_REQUIRED
OutcomeFailure(w, ref, row, total, before) ==
  /\ ref = Null
  /\ total = before
\* C3: when a worker execution completes, exactly one of the two holds: either
\* audioRef is its new id, the AudioItem row exists and free+paid is lower by
\* exactly the required tokens than when the job started, or audioRef is null
\* and free+paid is what it was when the job started.
C3_ExactlyOneOutcome ==
  [][\A w \in Reqs :
       Completes(w) =>
         LET ref == rl_items'[wk[w].item]
             row == l_items'[newUid(w)]
             total == tokens'[wk[w].user].free + tokens'[wk[w].user].paid
             before == wk[w].bal0
         IN OutcomeSuccess(w, ref, row, total, before)
              /= OutcomeFailure(w, ref, row, total, before)]_vars

\* a synthesis call is only ever made by a worker whose sentinel write has
\* been issued
C4_SentinelFirst ==
  \A w \in Reqs : wk[w].pc = "tts" \/ wk[w].tts /= "no" => wk[w].sent /= "no"
C4_Step ==
  /\ \A w \in Reqs :
       (wk[w].sent = "no" /\ wk'[w].sent = "applied") =>
          /\ wk[w].tts = "no"
          /\ rl_items'[wk[w].item] = ZERO_UUID
  /\ \A r \in Reqs :
       (req[r].pc = "fetchItem" /\ req'[r].ref /= Unread
          /\ rl_items[req[r].item] /= Null) =>
          /\ req'[r].pc = "done" /\ req'[r].status = 409
          /\ wk' = wk
\* C4: the worker issues its sentinel write before its synthesis call is made,
\* hence before it returns, and audioRef is the sentinel as soon as the store
\* has applied that write; a submission whose read of audioRef happens while
\* the sentinel (or the id linked after it) is in place is answered 409 and
\* dispatches nothing.
C4_SentinelBeforeSynthesis == []C4_SentinelFirst /\ [][C4_Step]_vars
C4_Witness ==
  \E w \in Reqs, r \in Reqs :
    /\ wk[w].pc = "tts" /\ wk[w].sent = "applied"
    /\ rl_items[wk[w].item] = ZERO_UUID
    /\ req[r].item = wk[w].item /\ req[r].ref = ZERO_UUID /\ req[r].status = 409
    /\ wk[r].pc = "none"

\* C5: when the synthesis gateway answers with a non-success response, the
\* job ends with audioRef null, no l_items row created by the job, and the
\* caller's balance as it was when the job started.
C5_SynthesisFailureLeavesNothing ==
  [][\A w \in Reqs :
       (Completes(w) /\ wk[w].tts = "fail") =>
          /\ rl_items'[wk[w].item] = Null
          /\ l_items'[newUid(w)] = NoRow
          /\ tokens'[wk[w].user].free + tokens'[wk[w].user].paid = wk[w].bal0]_vars

\* C6: an AudioItem row is created only after the synthesis call of its job
\* has succeeded, and once created none of its fields is written again.
C6_AudioItemWrittenOnce ==
  [][\A u \in Reqs :
       /\ (l_items[u] = NoRow /\ l_items'[u] /= NoRow) => wk[u].tts = "ok"
       /\ l_items[u] /= NoRow => l_items'[u] = l_items[u]]_vars

\* C7: a worker execution that has set the sentinel and then fails at a later
\* stage performs the compensating write and terminates with audioRef null;
\* the sentinel is not left in audioRef when the worker has terminated.
C7_FailureClearsSentinel ==
  [][\A w \in Reqs :
       (Completes(w) /\ wk[w].sent = "applied"
          /\ wk[w].failed \notin {"none", "insert", "sentinel"}) =>
          /\ wk[w].pc = "catch"
          /\ rl_items'[wk[w].item] = Null]_vars

\* C8: a worker is dispatched for a request iff the request is answered 200,
\* and it is answered 200 exactly when the body has both fields, the
\* credential verifies with a subject, the ContentItem fetch succeeds and
\* reads audioRef null, the balance fetch succeeds with free + paid >=
\* required, and the dispatch call succeeds; every other request is answered
\* 400, 401, 402, 409 or 500.
C8_DispatchIff200 ==
  \A r \in Reqs :
    /\ wk[r].pc /= "none" <=> req[r].status = 200
    /\ req[r].pc = "done" =>
         /\ req[r].status \in {200, 400, 401, 402, 409, 500}
         /\ req[r].status = 200 <=>
              /\ req[r].body = "ok" /\ req[r].cred = "valid"
              /\ req[r].ref = Null
              /\ req[r].tok = "ok" /\ req[r].total >= SUBMIT_MIN_TOKENS_REQUIRED
              /\ req[r].inv = "ok"
    /\ req[r].pc /= "done" => req[r].status = 0
C8_Witness ==
  \E r \in Reqs, q \in Reqs :
    /\ req[r].status = 200 /\ wk[r].pc /= "none"
    /\ req[q].pc = "done" /\ req[q].status /= 200 /\ wk[q].pc = "none"

C9_Answered402 ==
  \A r \in Reqs :
    /\ req[r].tok = "ok" =>
         (req[r].total < SUBMIT_MIN_TOKENS_REQUIRED <=> req[r].status = 402)
    /\ req[r].status = 402 =>
         req[r].tok = "ok" /\ req[r].ref = Null /\ wk[r].pc = "none"
C9_Step ==
  \A r \in Reqs :
    (req'[r] /= req[r] /\ req'[r].status \in {0, 402}) =>
       /\ rl_items' = rl_items /\ l_items' = l_items /\ s3' = s3
       /\ tokens' = tokens /\ wk' = wk
\* C9: a submission that reads a balance with free + paid < required is
\* answered 402 (and only such a submission is), dispatches no worker, and no
\* step of it, the answering one included, changes rl_items, l_items, the
\* bucket or tokens; the audioRef it had read is null.
C9_InsufficientTokens == []C9_Answered402 /\ [][C9_Step]_vars
C9_Witness ==
  \E r \in Reqs :
    /\ req[r].status = 402 /\ req[r].total < SUBMIT_MIN_TOKENS_REQUIRED
    /\ rl_items[req[r].item] = Null /\ wk[r].pc = "none"

C10_Answered409 ==
  \A r \in Reqs :
    /\ req[r].ref = ZERO_UUID =>
         /\ req[r].status = 409
         /\ req[r].error = "audio creation already in progress"
    /\ req[r].ref >= 1 =>
         /\ req[r].status = 409
         /\ req[r].error = "l_item already exists"
    /\ req[r].status = 409 =>
         /\ req[r].ref = ZERO_UUID \/ req[r].ref >= 1
         /\ req[r].tok = "unread" /\ req[r].inv = "no" /\ wk[r].pc = "none"
C10_Step ==
  \A r \in Reqs :
    (req'[r] /= req[r] /\ req'[r].status \in {0, 409}) =>
       /\ rl_items' = rl_items /\ l_items' = l_items /\ s3' = s3
       /\ tokens' = tokens /\ wk' = wk
\* C10: a submission that reads the sentinel is answered 409 "audio creation
\* already in progress", one that reads a real id is answered 409 "l_item
\* already exists"; neither dispatches a worker nor reads the balance, and no
\* step of it, the answering one included, changes any stored state.
C10_Conflict == []C10_Answered409 /\ [][C10_Step]_vars
C10_Witness ==
  \E r \in Reqs :
    /\ req[r].status = 409 /\ req[r].error = "l_item already exists"
    /\ req[r].ref >= 1 /\ rl_items[req[r].item] = req[r].ref
    /\ req[r].tok = "unread" /\ wk[r].pc = "none"

\* =====================================================================
\* Refresh Endpoint (src/backend/aws/lambda/resign-listening-url/index.js)
\* =====================================================================

\* variant of ValidateRefresh that verifies the credential before it looks
\* at the fields of the body
ValidateRefresh_VerifyFirst(body, cred) ==
  IF body = "missing" THEN <<400, "Request body missing">>
  ELSE IF body = "malformed" THEN <<500, "internal_server_error">>
  ELSE IF cred = "invalid" THEN <<401, "Invalid token">>
  ELSE IF cred = "nosub" THEN <<401, "Invalid token payload">>
  ELSE IF body = "nofields" THEN <<400, "jwt_token and l_item_uid required">>
  ELSE <<0, "none">>

\* steps before the store call: body, fields, jwt.verify, subject
ValidateRefresh(body, cred) ==
  IF body = "missing" THEN <<400, "Request body missing">>
  ELSE IF body = "malformed" THEN <<500, "internal_server_error">>
  ELSE IF body = "nofields" THEN <<400, "jwt_token and l_item_uid required">>
  ELSE IF cred = "invalid" THEN <<401, "Invalid token">>
  ELSE IF cred = "nosub" THEN <<401, "Invalid token payload">>
  ELSE <<0, "none">>

\* variant of ResignOutcome that looks at the public URL before is_deleted
ResignOutcome_PublicBeforeDeleted(lItem, acl) ==
  IF lItem = NoRow THEN <<404, "l_item not found", "none">>
  ELSE IF acl /\ lItem.public_url /= "none" THEN <<200, "none", lItem.public_url>>
  ELSE IF lItem.is_deleted THEN <<410, "l_item is deleted", "none">>
  ELSE IF lItem.s3_key = Null
       THEN IF lItem.public_url /= "none"
            THEN <<200, "none", lItem.public_url>>
            ELSE <<400, "No s3_key for l_item", "none">>
  ELSE <<200, "none", "resigned">>

\* what follows the l_items fetch: status, error, public_url of the answer
ResignOutcome(lItem, acl) ==
  IF lItem = NoRow THEN <<404, "l_item not found", "none">>
  ELSE IF lItem.is_deleted THEN <<410, "l_item is deleted", "none">>
  ELSE IF acl /\ lItem.public_url /= "none" THEN <<200, "none", lItem.public_url>>
  ELSE IF lItem.s3_key = Null
       THEN IF lItem.public_url /= "none"
            THEN <<200, "none", lItem.public_url>>
            ELSE <<400, "No s3_key for l_item", "none">>
  ELSE <<200, "none", "resigned">>

RefreshRespond(q, code, msg, u) ==
  [q EXCEPT !.pc = "done", !.status = code, !.error = msg, !.url = u]

\* variant of RefreshStart that answers 429 when a request for the uid has
\* been answered before
RefreshStart_OncePerUid(k) ==
  /\ rs[k].pc = "idle"
  /\ \A q \in Refreshes : q < k => rs[q].pc /= "idle"
  /\ \E body \in Bodies, cred \in Creds, u \in Reqs :
       /\ body \in {"missing", "malformed"} => cred = "invalid"
       /\ body /= "ok" => u = 1
       /\ LET v == ValidateRefresh(body, cred)
              q == [rs[k] EXCEPT !.body = body, !.cred = cred, !.uid = u,
                                 !.prior = Cardinality({j \in Refreshes :
                                                         rs[j].pc = "done"})]
          IN rs' = [rs EXCEPT ![k] =
                      IF v[1] /= 0 THEN RefreshRespond(q, v[1], v[2], "none")
                      ELSE IF \E j \in Refreshes :
                                rs[j].pc = "done" /\ rs[j].read /\ rs[j].uid = u
                           THEN RefreshRespond(q, 429, "too many requests", "none")
                      ELSE [q EXCEPT !.pc = "fetch"]]
  /\ UNCHANGED <<store, req, wk, owner_id, use_public_acl, ledgerVars, clientVars>>

RefreshStart(k) ==
  /\ rs[k].pc = "idle"
  /\ \A q \in Refreshes : q < k => rs[q].pc /= "idle"
  /\ \E body \in Bodies, cred \in Creds, u \in Reqs :
       /\ body \in {"missing", "malformed"} => cred = "invalid"
       /\ body /= "ok" => u = 1
       /\ LET v == ValidateRefresh(body, cred)
              q == [rs[k] EXCEPT !.body = body, !.cred = cred, !.uid = u,
                                 !.prior = Cardinality({j \in Refreshes :
                                                         rs[j].pc = "done"})]
          IN rs' = [rs EXCEPT ![k] =
                      IF v[1] /= 0 THEN RefreshRespond(q, v[1], v[2], "none")
                      ELSE [q EXCEPT !.pc = "fetch"]]
  /\ UNCHANGED <<store, req, wk, owner_id, use_public_acl, ledgerVars, clientVars>>

\* variant of RefreshFetch that records the freshly signed URL in the row
RefreshFetch_PersistsUrl(k) ==
  /\ rs[k].pc = "fetch"
  /\ \E ok \in BOOLEAN :
       LET q == [rs[k] EXCEPT !.read = TRUE]
           o == ResignOutcome(l_items[rs[k].uid], use_public_acl)
       IN /\ rs' = [rs EXCEPT ![k] =
                      IF ok THEN RefreshRespond(q, o[1], o[2], o[3])
                      ELSE RefreshRespond(q, 500, "DB error fetching l_item", "none")]
          /\ l_items' = IF ok /\ o[3] = "resigned"
                        THEN [l_items EXCEPT ![rs[k].uid].public_url = "resigned"]
                        ELSE l_items
  /\ UNCHANGED <<rl_items, r_item, s3, tokens, req, wk, owner_id,
                 use_public_acl, ledgerVars, clientVars>>

\* select uid, s3_key, public_url, is_deleted from l_items, then the answer
RefreshFetch(k) ==
  /\ rs[k].pc = "fetch"
  /\ \E ok \in BOOLEAN :
       LET q == [rs[k] EXCEPT !.read = TRUE]
           o == ResignOutcome(l_items[rs[k].uid], use_public_acl)
       IN rs' = [rs EXCEPT ![k] =
                   IF ok THEN RefreshRespond(q, o[1], o[2], o[3])
                   ELSE RefreshRespond(q, 500, "DB error fetching l_item", "none")]
  /\ UNCHANGED <<store, req, wk, owner_id, use_public_acl, ledgerVars, clientVars>>

\* ---------------------------------------------------------------------
\* The two endpoints over the rows earlier jobs have left
\* ---------------------------------------------------------------------
Owners == {1, 2}                \* user 2 owns items that user 1 can open

\* a row of l_items as the worker's insert leaves it (k = Null) and as its
\* update leaves it (k = u); is_deleted is set by maintenance outside the
\* pipeline
Row(u, k, d) ==
  [uid |-> u, rl_item_id |-> 1, s3_key |-> k,
   public_url |-> IF k = Null THEN "none" ELSE "signed", is_deleted |-> d]

\* audioRef of item 1 and the row of uid 1 as earlier jobs can have left them
Snapshots ==
  { <<Null, NoRow>>, <<Null, Row(1, Null, FALSE)>>,
    <<ZERO_UUID, Row(1, Null, FALSE)>>, <<1, Row(1, Null, FALSE)>>,
    <<1, Row(1, 1, FALSE)>>, <<1, Row(1, 1, TRUE)>> }
EndpointBalances == { <<0, 0>>, <<3, 10>> }

InitEndpoints ==
  /\ owner_id \in [Items -> Owners]
  /\ r_item = [i \in Items |-> TRUE]
  /\ \E sn \in Snapshots :
       /\ rl_items = [i \in Items |-> sn[1]]
       /\ l_items = [u \in Reqs |-> IF u = 1 THEN sn[2] ELSE NoRow]
  /\ s3 = {u \in Reqs : l_items[u].s3_key /= Null}
  /\ \E b \in EndpointBalances :
       tokens = [u \in Users |-> [free |-> b[1], paid |-> b[2]]]
  /\ req = [r \in Reqs |-> InitReq]
  /\ wk = [r \in Reqs |-> InitWk]
  /\ rs = [k \in Refreshes |-> InitRs]
  /\ use_public_acl \in BOOLEAN
  /\ InitLedger /\ InitClient

\* no step of this specification writes a row, so the requests do not
\* influence each other: two submissions and one refresh request are followed
\* whatever MaxReqs and MaxRefresh are
EndpointReqs == {1, 2}
EndpointRefreshes == {1}

NextEndpoints ==
  \/ \E r \in EndpointReqs : SubmitStart(r)
  \/ \E r \in EndpointReqs : SubmitFetchItem(r)
  \/ \E r \in EndpointReqs : SubmitFetchTokens(r)
  \/ \E r \in EndpointReqs : SubmitInvoke(r)
  \/ \E k \in EndpointRefreshes : RefreshStart(k)
  \/ \E k \in EndpointRefreshes : RefreshFetch(k)

SpecEndpoints == InitEndpoints /\ [][NextEndpoints]_vars

C11_Answered ==
  /\ \A r \in Reqs :
       /\ req[r].body \in {"missing", "nofields"} => req[r].status = 400
       /\ (req[r].body = "ok" /\ req[r].cred \in {"invalid", "nosub"}) =>
             req[r].status = 401
       /\ req[r].status = 401 =>
             /\ req[r].body = "ok" /\ req[r].cred \in {"invalid", "nosub"}
             /\ req[r].ref = Unread /\ req[r].tok = "unread" /\ req[r].inv = "no"
  /\ \A k \in Refreshes :
       /\ rs[k].body \in {"missing", "nofields"} => rs[k].status = 400 /\ ~rs[k].read
       /\ (rs[k].body = "ok" /\ rs[k].cred \in {"invalid", "nosub"}) =>
             rs[k].status = 401
       /\ rs[k].status = 401 =>
             /\ rs[k].body = "ok" /\ rs[k].cred \in {"invalid", "nosub"}
             /\ ~rs[k].read
C11_Step ==
  /\ \A r \in Reqs :
       (req[r].status = 0 /\ req'[r].status \in {400, 401}) =>
          req[r].pc = "idle" /\ UNCHANGED store
  /\ \A k \in Refreshes :
       (rs[k].status = 0 /\ rs'[k].status = 401) =>
          rs[k].pc = "idle" /\ UNCHANGED store
\* C11: in the Submission Endpoint and in the Refresh Endpoint a request whose
\* body has both fields and whose credential fails verification or carries no
\* subject is answered 401 by the step that precedes the handler's first store
\* call, having read and written nothing; a request whose body or one of
\* whose fields is missing is answered 400 whatever its credential is.
C11_RejectBeforeStore == []C11_Answered /\ [][C11_Step]_vars
C11_Witness ==
  \E r \in Reqs, q \in Reqs, k \in Refreshes :
    /\ req[r].status = 401 /\ req[r].cred = "nosub"
    /\ req[q].status = 400 /\ req[q].body = "nofields" /\ req[q].cred = "invalid"
    /\ rs[k].status = 401 /\ rs[k].cred = "invalid" /\ ~rs[k].read

\* C12: a worker is dispatched for a ContentItem only by a submission whose
\* caller owns the item.
C12_OwnerOnly ==
  \A r \in Reqs :
    wk[r].pc /= "none" => owner_id[wk[r].item] = wk[r].user

\* =====================================================================
\* Token ledger: of the jobs of one user for different ContentItems, the
\* steps that read or write the tokens row (part_001:128-156, part_000:116-134)
\* =====================================================================
\* values MIN_TOKENS_REQUIRED takes: the default of either function
Thresholds == {SUBMIT_MIN_TOKENS_REQUIRED, WORKER_MIN_TOKENS_REQUIRED}

InitTokens ==
  /\ \E b \in InitBalances :
       tokens = [u \in Users |-> [free |-> b[1], paid |-> b[2]]]
  /\ cfg \in [submit : Thresholds, worker : Thresholds]
  /\ job = [j \in Jobs |-> InitJob]
  /\ owner_id = [i \in Items |-> 1]
  /\ rl_items = [i \in Items |-> Null]
  /\ r_item = [i \in Items |-> TRUE]
  /\ l_items = [u \in Reqs |-> NoRow]
  /\ s3 = {}
  /\ req = [r \in Reqs |-> InitReq]
  /\ wk = [r \in Reqs |-> InitWk]
  /\ InitRefresh /\ InitClient

\* what a step of the ledger leaves alone
ledgerFrame == <<rl_items, r_item, l_items, s3, req, wk, owner_id, cfg,
                 refreshVars, clientVars>>

\* submission, step 4 to 6: the balance check, then the dispatch
LedgerAdmit(j) ==
  /\ job[j].pc = "none"
  /\ \A q \in Jobs : q < j => job[q].pc /= "none"
  /\ \E ok \in BOOLEAN :
       job' = [job EXCEPT ![j].pc =
                 IF ok /\ ~(Total(1) < cfg.submit) THEN "admitted" ELSE "refused"]
  /\ UNCHANGED <<tokens, ledgerFrame>>

\* worker: select free, paid from tokens, then the debit arithmetic; a job
\* that fails at an earlier step never gets here
LedgerFetch(j) ==
  /\ job[j].pc = "admitted"
  /\ \E ok \in BOOLEAN :
       job' = [job EXCEPT ![j] =
                 IF ok
                 THEN LET t == tokens[1]
                          d == Debit(t.free, t.paid, cfg.worker)
                      IN [pc |-> "fetched", free |-> d[1], paid |-> d[2],
                          rfree |-> t.free, rpaid |-> t.paid]
                 ELSE [@ EXCEPT !.pc = "failed"]]
  /\ UNCHANGED <<tokens, ledgerFrame>>

\* variant of LedgerUpdate that debits the balance stored at the moment of
\* the write
LedgerUpdate_Atomic(j) ==
  /\ job[j].pc = "fetched"
  /\ \E ok \in BOOLEAN :
       IF ok
       THEN /\ tokens' = [tokens EXCEPT ![1] =
                            [free |-> Debit(@.free, @.paid, cfg.worker)[1],
                             paid |-> Debit(@.free, @.paid, cfg.worker)[2]]]
            /\ job' = [job EXCEPT ![j].pc = "done"]
       ELSE /\ tokens' = tokens
            /\ job' = [job EXCEPT ![j].pc = "failed"]
  /\ UNCHANGED ledgerFrame

\* worker: update tokens set free, paid where user_id
LedgerUpdate(j) ==
  /\ job[j].pc = "fetched"
  /\ \E ok \in BOOLEAN :
       IF ok
       THEN /\ tokens' = [tokens EXCEPT ![1] =
                            [free |-> job[j].free, paid |-> job[j].paid]]
            /\ job' = [job EXCEPT ![j].pc = "done"]
       ELSE /\ tokens' = tokens
            /\ job' = [job EXCEPT ![j].pc = "failed"]
  /\ UNCHANGED ledgerFrame

NextTokens ==
  \/ \E j \in Jobs : LedgerAdmit(j)
  \/ \E j \in Jobs : LedgerFetch(j)
  \/ \E j \in Jobs : LedgerUpdate(j)

SpecTokens == InitTokens /\ [][NextTokens]_vars

Min(a, b) == IF a <= b THEN a ELSE b

C13_Computed ==
  \A j \in Jobs :
    job[j].pc \in {"fetched", "done"} =>
      LET f == job[j].rfree
          p == job[j].rpaid
          r == cfg.worker
      IN /\ job[j].free = f - Min(f, r)
         /\ job[j].paid = p - (r - Min(f, r))
         /\ job[j].free + job[j].paid = f + p - r
         /\ (f = 3 /\ p = 10 /\ r = 7) => job[j].free = 0 /\ job[j].paid = 6
         /\ (f = 10 /\ p = 10 /\ r = 7) => job[j].free = 3 /\ job[j].paid = 10
C13_Written ==
  \A j \in Jobs :
    (job[j].pc = "fetched" /\ job'[j].pc = "done") =>
       /\ tokens'[1].free = job[j].rfree - Min(job[j].rfree, cfg.worker)
       /\ tokens'[1].paid =
            job[j].rpaid - (cfg.worker - Min(job[j].rfree, cfg.worker))
\* C13: for every balance (free, paid) the worker's debit step reads and every
\* configured requiredTokens, the balance it writes is free - min(free,
\* required) and paid - (required - min(free, required)); (3,10) at cost 7
\* gives (0,6), (10,10) at cost 7 gives (3,10), and the sum written is
\* free + paid - required.
C13_DebitArithmetic == []C13_Computed /\ [][C13_Written]_vars
C13_Witness ==
  \E j \in Jobs :
    /\ job[j].pc = "done" /\ cfg.worker = 7
    /\ job[j].rfree = 3 /\ job[j].rpaid = 10
    /\ tokens[1] = [free |-> 0, paid |-> 6]

\* C14: free and paid of every user's balance are non-negative in every
\* reachable state of the pipeline.
C14_NonNegative ==
  \A u \in Users : tokens[u].free >= 0 /\ tokens[u].paid >= 0

\* C15: no write to the tokens row stores a free above the free stored just
\* before it, nor a paid above the paid stored just before it.
C15_NeverIncreases ==
  [][\A u \in Users :
       /\ tokens'[u].free <= tokens[u].free
       /\ tokens'[u].paid <= tokens[u].paid]_vars

C16_Step ==
  \A j \in Jobs :
    (job[j].pc = "fetched" /\ job'[j].pc = "done") =>
       LET d == Debit(job[j].rfree, job[j].rpaid, cfg.worker)
       IN tokens'[1] = [free |-> d[1], paid |-> d[2]]
\* C16: the balance a worker writes is the debit of the balance it read
\* itself, whatever has been stored in between; so of two workers of one user
\* that both read before either writes, both writes succeed and the stored
\* free + paid ends lower by one requiredTokens only.
C16_LastWriteWins == [][C16_Step]_vars
C16_Witness ==
  \E j \in Jobs, k \in Jobs :
    /\ j /= k /\ job[j].pc = "done" /\ job[k].pc = "done"
    /\ \A q \in Jobs \ {j, k} : job[q].pc = "none"
    /\ job[j].rfree = job[k].rfree /\ job[j].rpaid = job[k].rpaid
    /\ cfg.worker = 7
    /\ Total(1) = job[j].rfree + job[j].rpaid - cfg.worker

\* C17: the tokens row is changed only by the last step of a worker that has
\* uploaded its artifact and none of whose earlier steps, the link of
\* audioRef to the new id included, has failed.
C17_DebitOnlyAfterLink ==
  [][tokens' /= tokens =>
       \E w \in Reqs :
         /\ wk[w].pc = "tokupdate" /\ wk'[w].pc = "done"
         /\ newUid(w) \in s3
         /\ wk[w].failed = "none"]_vars

\* =====================================================================
\* Client Observer (src/src/pages/RlItemDetail.tsx): the polling effect
\* =====================================================================
\* A state update and the commit that follows it (cleanup of the previous
\* effect run, then the next run) are one step; each await is a step.
MAX_INTERVAL == 120000          \* const MAX_INTERVAL = 120_000
POLLS_PER_STEP == 5             \* pollCount % 5 === 0
RealId == 1                     \* a real l_item_id
Pages == {1, 2}                 \* rl_items ids the page is opened for
PollResults == {"sentinel", "null", "real", "error", "throw"}
SubmitAnswers == {200, 400, 401, 402, 409, 500}

PRESIGNED_URL_EXPIRES == 3600   \* Number(VITE_PRESIGNED_URL_EXPIRES ?? 3600)
TickMs == PRESIGNED_URL_EXPIRES * 500   \* the clock is followed in steps of
                                        \* half a validity period

\* what no step of the polling effect touches
clientFrame == <<store, req, wk, owner_id, refreshVars, ledgerVars, ownerVars,
                 libVars,
                 now, resigningRef, audio, download>>

\* JSON.stringify of {public_url, expires_at}, and JSON.parse of a stored
\* string (ok = FALSE: it throws)
JSON_stringify(c) ==
  [kind |-> "json", public_url |-> c.public_url, expires_at |-> c.expires_at]
JSON_parse(raw) ==
  IF raw.kind = "json"
  THEN [ok |-> TRUE, public_url |-> raw.public_url, expires_at |-> raw.expires_at]
  ELSE [ok |-> FALSE, public_url |-> "none", expires_at |-> Null]

\* a number that is neither undefined nor 0
Truthy(x) == x /= Null /\ x /= 0

\* variant of CacheHit without the `parsed.expires_at > Date.now()` test
CacheHit_NoExpiryTest(raw, t) ==
  /\ raw.kind /= "missing"
  /\ LET parsed == JSON_parse(raw)
     IN parsed.ok /\ parsed.public_url /= "none" /\ Truthy(parsed.expires_at)

\* fetchPublicUrlForUid before its await: the entry of localStorage is used
CacheHit(raw, t) ==
  /\ raw.kind /= "missing"
  /\ LET parsed == JSON_parse(raw)
     IN /\ parsed.ok /\ parsed.public_url /= "none"
        /\ Truthy(parsed.expires_at) /\ parsed.expires_at > t

\* the entry written after a fetch: expires_at = Date.now() +
\* PRESIGNED_URL_EXPIRES * 1000
FreshEntry(url, t) ==
  JSON_stringify([public_url |-> url,
                  expires_at |-> t + PRESIGNED_URL_EXPIRES * 1000])

\* variant of scheduleNext without the `if (!mounted) return`
scheduleNext_NoMountedTest(e) == [e EXCEPT !.timer = TRUE]

\* scheduleNext: timer = window.setTimeout(pollOnce, currentInterval)
scheduleNext(e) == IF e.mounted THEN [e EXCEPT !.timer = TRUE] ELSE e

\* once the cleanup has run, pollCount, currentInterval and what the run has
\* read are dead (scheduleNext returns at `!mounted` before it reads them),
\* and nothing of the run is left when its last async call has returned
TornDone(e) == [InitEff EXCEPT !.st = "torn", !.late = e.late]
Settle(e) ==
  IF e.st /= "torn" THEN e
  ELSE IF e.pc = "idle" /\ ~e.timer THEN TornDone(e)
  ELSE [TornDone(e) EXCEPT !.pc = e.pc, !.timer = e.timer]

\* the cleanup the effect returns: mounted = false; clearTimeout(timer)
Cleanup(e) ==
  IF e.st = "live"
  THEN Settle([e EXCEPT !.st = "torn", !.mounted = FALSE, !.timer = FALSE])
  ELSE e

Free(E) == {s \in Sessions : E[s].st = "unused" \/ E[s] = TornDone(E[s])}
DepsChanged(old, new) == new.id /= old.id \/ new.l_item_id /= old.l_item_id
AfterCleanup(E) == [s \in Sessions |-> Cleanup(E[s])]

\* the commit can be followed only while a slot is left for the new run; a
\* run never takes the slot of the run cleaned up in the same commit
HasRoom(E, old, new) ==
  (DepsChanged(old, new) /\ new /= NoItem /\ new.l_item_id /= Null) =>
     Free(E) /= {}

\* the effect with dependencies [rlItem?.l_item_id, rlItem?.id]: cleanup of
\* the previous run, then the body
RunEffect(E, old, new) ==
  IF ~DepsChanged(old, new) THEN E
  ELSE LET T == AfterCleanup(E)
       IN IF new = NoItem \/ new.l_item_id = Null THEN T
          ELSE LET s0 == CHOOSE s \in Free(E) : \A q \in Free(E) : s <= q
                   run == [InitEff EXCEPT !.st = "live", !.mounted = TRUE]
               IN [T EXCEPT ![s0] =
                     IF new.l_item_id = ZERO_UUID THEN scheduleNext(run)
                     ELSE IF CacheHit(localStorage, now) THEN run
                     ELSE [run EXCEPT !.pc = "fetchUrl"]]

\* what the effect body does to lItemPublicUrl (cur before the commit): the
\* cached URL of a real id, setLItemPublicUrl(null) in the last branch
UrlAfter(old, new, cur) ==
  IF ~DepsChanged(old, new) \/ new = NoItem THEN cur
  ELSE IF new.l_item_id = Null THEN "none"
  ELSE IF new.l_item_id /= ZERO_UUID /\ CacheHit(localStorage, now)
       THEN JSON_parse(localStorage).public_url
  ELSE cur

\* setRlItem(next) and the commit
SetRlItem(E, new, cur) ==
  /\ HasRoom(E, rlItem, new)
  /\ rlItem' = new
  /\ eff' = RunEffect(E, rlItem, new)
  /\ lItemPublicUrl' = UrlAfter(rlItem, new, cur)

\* the load effect's fetch returns the row of the id in the URL (or none)
LoadItem ==
  /\ page = "shown"
  /\ \E new \in {NoItem} \cup
                [id : Pages, l_item_id : {Null, ZERO_UUID, RealId}] :
       SetRlItem(eff, new, lItemPublicUrl)
  /\ resp' = Null
  /\ UNCHANGED polled
  /\ UNCHANGED <<page, creatingListening, localStorage, clientFrame>>

\* the component is unmounted: the cleanup runs, the state is discarded and
\* the state setters of calls still in flight do nothing
Unmount ==
  /\ page = "shown"
  /\ page' = "gone"
  /\ eff' = AfterCleanup(eff)
  /\ rlItem' = NoItem
  /\ lItemPublicUrl' = "none"
  /\ creatingListening' = FALSE
  /\ resp' = Null
  /\ UNCHANGED polled
  /\ UNCHANGED <<localStorage, clientFrame>>

\* click on "Create listening material"
handleCreateListening ==
  /\ page = "shown" /\ rlItem /= NoItem
  /\ ~creatingListening /\ rlItem.l_item_id = Null
  /\ creatingListening' = TRUE
  /\ resp' = Null
  /\ UNCHANGED polled
  /\ UNCHANGED <<page, rlItem, eff, lItemPublicUrl, localStorage, clientFrame>>

\* variant of CreateListeningAnswer that marks the item as in progress
\* whatever the answer is
CreateListeningAnswer_Optimistic(code) ==
  /\ page = "shown" /\ creatingListening
  /\ creatingListening' = FALSE
  /\ LET new == IF rlItem /= NoItem
                THEN [rlItem EXCEPT !.l_item_id = ZERO_UUID] ELSE rlItem
     IN SetRlItem(eff, new, lItemPublicUrl)
  /\ UNCHANGED <<page, localStorage, polled, clientFrame>>

\* handleCreateListening after its awaits, with the status of the answer of
\* the Submission Endpoint (0: no token or the fetch failed)
CreateListeningAnswer(code) ==
  /\ page = "shown" /\ creatingListening
  /\ creatingListening' = FALSE
  /\ LET new == IF code = 200 /\ rlItem /= NoItem
                THEN [rlItem EXCEPT !.l_item_id = ZERO_UUID] ELSE rlItem
     IN SetRlItem(eff, new, lItemPublicUrl)
  /\ UNCHANGED <<page, localStorage, polled, clientFrame>>

\* the answer arrives; resp is dead when the handler has returned
CreateListeningReturns ==
  \E code \in SubmitAnswers \cup {0} :
    CreateListeningAnswer(code) /\ resp' = Null

\* the same step seen with the status it was taken for
CreateListeningAnswered ==
  \E code \in SubmitAnswers \cup {0} :
    CreateListeningAnswer(code) /\ resp' = code

\* pollOnce up to its await
pollOnce(s) ==
  /\ eff[s].timer
  /\ eff' = [eff EXCEPT ![s] =
               IF @.mounted THEN [@ EXCEPT !.timer = FALSE, !.pc = "polling"]
               ELSE Settle([@ EXCEPT !.timer = FALSE])]
  /\ resp' = Null
  /\ UNCHANGED <<page, rlItem, lItemPublicUrl, creatingListening,
                 localStorage, clientFrame>>

\* the timeout fires
TimerFires(s) == pollOnce(s) /\ UNCHANGED polled

\* the same step seen with the id its select is made for: .eq("id", rlItem.id)
PollIssued(s) ==
  /\ pollOnce(s)
  /\ polled' = [polled EXCEPT ![s] = IF eff[s].mounted THEN rlItem.id ELSE @]

\* variant of AfterPoll that doubles the interval after every 10 polls
AfterPoll_EveryTen(e, res) ==
  LET e1 == [e EXCEPT !.pc = "idle", !.late = @ \/ e.st = "torn"]
  IN IF res = "error"
     THEN scheduleNext([e1 EXCEPT !.errs = Min(@ + 1, MaxErrs)])
     ELSE IF res = "real"
          THEN [e1 EXCEPT !.got = TRUE,
                          !.pc = IF CacheHit(localStorage, now) THEN "idle"
                                 ELSE "fetchUrl"]
     ELSE LET n == e.pollCount + 1
              e2 == [e1 EXCEPT !.pollCount = n,
                               !.sawNull = @ \/ res = "null"]
          IN IF n % (2 * POLLS_PER_STEP) = 0
             THEN LET ci == Min(e.currentInterval * 2, MAX_INTERVAL)
                      e3 == [e2 EXCEPT !.currentInterval = ci]
                  IN IF ci >= MAX_INTERVAL THEN e3 ELSE scheduleNext(e3)
             ELSE scheduleNext(e2)

\* pollOnce after its await, on the closure e
AfterPoll(e, res) ==
  LET e1 == [e EXCEPT !.pc = "idle", !.late = @ \/ e.st = "torn"]
  IN IF res = "error"
     THEN scheduleNext([e1 EXCEPT !.errs = Min(@ + 1, MaxErrs)])
     ELSE IF res = "real"
          THEN [e1 EXCEPT !.got = TRUE,
                          !.pc = IF CacheHit(localStorage, now) THEN "idle"
                                 ELSE "fetchUrl"]
     ELSE LET n == e.pollCount + 1
              e2 == [e1 EXCEPT !.pollCount = n,
                               !.sawNull = @ \/ res = "null"]
          IN IF n % POLLS_PER_STEP = 0
             THEN LET ci == Min(e.currentInterval * 2, MAX_INTERVAL)
                      e3 == [e2 EXCEPT !.currentInterval = ci]
                  IN IF ci >= MAX_INTERVAL THEN e3 ELSE scheduleNext(e3)
             ELSE scheduleNext(e2)

\* pollOnce after its await, on the state of the component
PollAnswer(s) ==
  /\ eff[s].pc = "polling"
  /\ \E res \in PollResults :
       LET E == [eff EXCEPT ![s] = Settle(AfterPoll(eff[s], res))]
           new == IF res = "real" /\ page = "shown" /\ rlItem /= NoItem
                  THEN [rlItem EXCEPT !.l_item_id = RealId] ELSE rlItem
           cur == IF res = "real" /\ page = "shown"
                     /\ CacheHit(localStorage, now)
                  THEN JSON_parse(localStorage).public_url ELSE lItemPublicUrl
       IN SetRlItem(E, new, cur)
  /\ resp' = Null
  /\ UNCHANGED <<page, creatingListening, localStorage, clientFrame>>

\* select l_item_id from rl_items returns
PollReturns(s) == PollAnswer(s) /\ UNCHANGED polled

\* the same step seen as the end of the select of PollIssued
PollAnswered(s) == PollAnswer(s) /\ polled' = [polled EXCEPT ![s] = 0]

\* fetchPublicUrlForUid after its await: select public_url from l_items
\* has returned (found: with a URL); localStorage.setItem is taken to succeed
FetchUrlReturns(s) ==
  /\ eff[s].pc = "fetchUrl"
  /\ \E found \in BOOLEAN :
       IF eff[s].mounted /\ found
       THEN /\ lItemPublicUrl' = "signed"
            /\ localStorage' = FreshEntry("signed", now)
       ELSE UNCHANGED <<lItemPublicUrl, localStorage>>
  /\ eff' = [eff EXCEPT ![s] = Settle([@ EXCEPT !.pc = "idle"])]
  /\ resp' = Null
  /\ UNCHANGED polled
  /\ UNCHANGED <<page, rlItem, creatingListening, clientFrame>>

InitObserver ==
  /\ InitClient /\ InitRefresh /\ InitLedger
  /\ owner_id = [i \in Items |-> 1]
  /\ rl_items = [i \in Items |-> Null]
  /\ r_item = [i \in Items |-> TRUE]
  /\ l_items = [u \in Reqs |-> NoRow]
  /\ s3 = {}
  /\ tokens = [u \in Users |-> [free |-> 10, paid |-> 10]]
  /\ req = [r \in Reqs |-> InitReq]
  /\ wk = [r \in Reqs |-> InitWk]

NextObserver ==
  \/ LoadItem
  \/ Unmount
  \/ handleCreateListening
  \/ CreateListeningReturns
  \/ \E s \in Sessions : TimerFires(s)
  \/ \E s \in Sessions : PollReturns(s)
  \/ \E s \in Sessions : FetchUrlReturns(s)

SpecObserver == InitObserver /\ [][NextObserver]_vars

\* the browser fires an armed timeout and every request returns
SpecObserverFair ==
  /\ SpecObserver
  /\ \A s \in Sessions :
       /\ WF_vars(TimerFires(s))
       /\ WF_vars(PollReturns(s))
       /\ WF_vars(FetchUrlReturns(s))

RECURSIVE Pow2(_)
Pow2(n) == IF n = 0 THEN 1 ELSE 2 * Pow2(n - 1)

\* polls of a run that have returned (exact while errs is below MaxErrs)
Attempts(e) == e.pollCount + e.errs

C18_Intervals ==
  \A s \in Sessions :
    /\ eff[s].currentInterval <= MAX_INTERVAL
    /\ eff[s].timer => eff[s].currentInterval < MAX_INTERVAL /\ ~eff[s].got
    /\ eff[s].errs < MaxErrs =>
         eff[s].currentInterval =
           Min(InitEff.currentInterval * Pow2(Attempts(eff[s]) \div POLLS_PER_STEP),
               MAX_INTERVAL)
C18_Step ==
  \A s \in Sessions :
    (eff[s].st = "live" /\ eff'[s].st = "live") =>
       eff'[s].currentInterval >= eff[s].currentInterval
\* C18: in a polling session the interval starts at 5000, never decreases,
\* is 5000 * 2^k after the k-th group of 5 poll attempts and never above
\* 120000; no poll is scheduled once it is 120000 or once a poll has read a
\* real id.
C18_Backoff == []C18_Intervals /\ [][C18_Step]_vars

\* C19: a session that has a poll scheduled or in flight gets to the point
\* where it has neither, whatever its polls return.
C19_PollingTerminates ==
  \A s \in Sessions :
    (eff[s].timer \/ eff[s].pc = "polling")
       ~> (~eff[s].timer /\ eff[s].pc /= "polling")

C20_Quiet ==
  \A s \in Sessions : eff[s].st = "torn" => ~eff[s].timer /\ ~eff[s].mounted
\* a slot holds the run that was cleaned up until a later run takes it
C20_Step ==
  \A s \in Sessions :
    eff'[s].st = "torn" =>
       /\ eff[s].st \in {"live", "torn"}
       /\ eff'[s].pc = "polling" => eff[s].pc = "polling"
       /\ ~eff'[s].timer
\* C20: once the cleanup of a run of the polling effect has run - the id or
\* the l_item_id of rlItem changed, or the component was unmounted - that run
\* issues no poll request and arms no timeout, also when a poll request of it
\* was in flight at the cleanup and returns afterwards.
C20_NoPollAfterTeardown == []C20_Quiet /\ [][C20_Step]_vars
C20_Witness ==
  \E s \in Sessions :
    /\ eff[s].st = "torn" /\ eff[s].late
    /\ eff[s].pc = "idle" /\ ~eff[s].timer

\* C21: once a poll of the run that shows the in-progress state has read a
\* null l_item_id (the worker has cleared it after a failure), the page gets,
\* without being loaded again, to the "no audio yet" state: the l_item_id of
\* rlItem is null, which enables the create button.
C21_RevertsToNoAudio ==
  \A s \in Sessions :
    (eff[s].st = "live" /\ eff[s].sawNull /\ rlItem.l_item_id = ZERO_UUID)
       ~> (eff[s].st /= "live" \/ rlItem.l_item_id = Null)

\* =====================================================================
\* Client Observer: the cached URL and the handlers that refresh it
\* =====================================================================
playerFrame == <<store, req, wk, owner_id, refreshVars, ledgerVars, ownerVars,
                 libVars,
                 page, rlItem, eff, creatingListening, resp, polled, now>>

\* the clock of the browser advances
Tick ==
  /\ now < MaxTicks * TickMs
  /\ now' = now + TickMs
  /\ UNCHANGED <<store, req, wk, owner_id, refreshVars, ledgerVars, ownerVars,
                 libVars,
                 page, rlItem, eff, lItemPublicUrl, creatingListening, resp,
                 polled,
                 localStorage, resigningRef, audio, download>>

\* getFreshSignedUrl up to its first await, for the handler h: it throws
\* when the l_item_id of the render is null
CallResign(h) ==
  IF h.uid = Null THEN InitHandler ELSE [h EXCEPT !.pc = "token"]

\* getFreshSignedUrl after the fetch has returned 200 with a URL: the entry
\* of the id is written under `litem:<id>`
CacheAfterResign(h) ==
  IF h.uid = RealId THEN FreshEntry("resigned", now) ELSE localStorage

\* setLItemPublicUrl(fresh), which does nothing once the page is gone
UrlAfterResign == IF page = "shown" THEN "resigned" ELSE lItemPublicUrl

\* the audio element reports an error: handleAudioError up to the await of
\* the access token (a call that throws at once changes nothing)
handleAudioError ==
  /\ page = "shown" /\ lItemPublicUrl /= "none"
  /\ ~resigningRef
  /\ rlItem /= NoItem /\ rlItem.l_item_id /= Null
  /\ resigningRef' = TRUE
  /\ audio' = CallResign([InitHandler EXCEPT !.uid = rlItem.l_item_id])
  /\ UNCHANGED <<lItemPublicUrl, localStorage, download, playerFrame>>

\* getCachedSessionAccessToken returns to handleAudioError
AudioTokenReturns ==
  /\ audio.pc = "token"
  /\ \E token \in BOOLEAN :
       IF token
       THEN /\ audio' = [audio EXCEPT !.pc = "resign"]
            /\ resigningRef' = resigningRef
       ELSE /\ audio' = InitHandler
            /\ resigningRef' = FALSE
  /\ UNCHANGED <<lItemPublicUrl, localStorage, download, playerFrame>>

\* the Refresh Endpoint answers handleAudioError: on 200 with a URL the
\* entry is cached, the URL set and play() called
AudioResignReturns ==
  /\ audio.pc = "resign"
  /\ \E ok \in BOOLEAN :
       IF ok
       THEN /\ localStorage' = CacheAfterResign(audio)
            /\ lItemPublicUrl' = UrlAfterResign
            /\ IF page = "shown"
               THEN /\ audio' = [audio EXCEPT !.pc = "play"]
                    /\ resigningRef' = resigningRef
               ELSE /\ audio' = InitHandler
                    /\ resigningRef' = FALSE
       ELSE /\ audio' = InitHandler
            /\ resigningRef' = FALSE
            /\ UNCHANGED <<lItemPublicUrl, localStorage>>
  /\ UNCHANGED <<download, playerFrame>>

\* audioRef.current.play() settles; finally resigningRef.current = false
AudioPlayReturns ==
  /\ audio.pc = "play"
  /\ audio' = InitHandler
  /\ resigningRef' = FALSE
  /\ UNCHANGED <<lItemPublicUrl, localStorage, download, playerFrame>>

\* click on download: handleDownload up to the await of the HEAD request
handleDownload(d) ==
  /\ page = "shown" /\ lItemPublicUrl /= "none" /\ rlItem /= NoItem
  /\ download[d].pc = "idle"
  /\ \A q \in Downloads : q < d => download[q].pc /= "idle"
  /\ download' = [download EXCEPT ![d] =
                    [pc |-> "head", uid |-> rlItem.l_item_id]]
  /\ UNCHANGED <<lItemPublicUrl, localStorage, resigningRef, audio, playerFrame>>

ProbeResults == {"ok", "denied", "throw"}

\* the HEAD request returns: accessible -> the browser download; rejected by
\* fetch -> the range GET; otherwise getFreshSignedUrl
DownloadHeadReturns(d) ==
  /\ download[d].pc = "head"
  /\ \E res \in ProbeResults :
       download' = [download EXCEPT ![d] =
                      IF res = "ok" THEN InitHandler
                      ELSE IF res = "throw" THEN [@ EXCEPT !.pc = "range"]
                      ELSE CallResign(@)]
  /\ UNCHANGED <<lItemPublicUrl, localStorage, resigningRef, audio, playerFrame>>

\* the range GET returns
DownloadRangeReturns(d) ==
  /\ download[d].pc = "range"
  /\ \E res \in ProbeResults :
       download' = [download EXCEPT ![d] =
                      IF res = "ok" THEN InitHandler ELSE CallResign(@)]
  /\ UNCHANGED <<lItemPublicUrl, localStorage, resigningRef, audio, playerFrame>>

\* getCachedSessionAccessToken returns to handleDownload
DownloadTokenReturns(d) ==
  /\ download[d].pc = "token"
  /\ \E token \in BOOLEAN :
       download' = [download EXCEPT ![d] =
                      IF token THEN [@ EXCEPT !.pc = "resign"] ELSE InitHandler]
  /\ UNCHANGED <<lItemPublicUrl, localStorage, resigningRef, audio, playerFrame>>

\* the Refresh Endpoint answers handleDownload: on 200 with a URL the entry
\* is cached, the URL set and the browser download triggered
DownloadResignReturns(d) ==
  /\ download[d].pc = "resign"
  /\ \E ok \in BOOLEAN :
       IF ok
       THEN /\ localStorage' = CacheAfterResign(download[d])
            /\ lItemPublicUrl' = UrlAfterResign
       ELSE UNCHANGED <<lItemPublicUrl, localStorage>>
  /\ download' = [download EXCEPT ![d] = InitHandler]
  /\ UNCHANGED <<resigningRef, audio, playerFrame>>

\* what the browser may hold under the key when the page is opened: nothing,
\* text that is no JSON, an entry without expires_at, an entry that has
\* expired, an entry written by an earlier visit
CacheInits ==
  { NoEntry, Garbage,
    JSON_stringify([public_url |-> "signed", expires_at |-> Null]),
    JSON_stringify([public_url |-> "signed", expires_at |-> 0]),
    FreshEntry("signed", 0) }

InitPlayer ==
  /\ InitRefresh /\ InitLedger
  /\ owner_id = [i \in Items |-> 1]
  /\ rl_items = [i \in Items |-> Null]
  /\ r_item = [i \in Items |-> TRUE]
  /\ l_items = [u \in Reqs |-> NoRow]
  /\ s3 = {}
  /\ tokens = [u \in Users |-> [free |-> 10, paid |-> 10]]
  /\ req = [r \in Reqs |-> InitReq]
  /\ wk = [r \in Reqs |-> InitWk]
  /\ page = "shown"
  /\ rlItem = NoItem
  /\ eff = [s \in Sessions |-> InitEff]
  /\ lItemPublicUrl = "none"
  /\ creatingListening = FALSE
  /\ resp = Null
  /\ polled = [s \in Sessions |-> 0]
  /\ now = 0
  /\ localStorage \in CacheInits
  /\ resigningRef = FALSE
  /\ audio = InitHandler
  /\ download = [d \in Downloads |-> InitHandler]
  /\ del = "idle"
  /\ rl_exists = [i \in Items |-> TRUE]
  /\ delete_requested = [i \in Items |-> FALSE]
  /\ InitLib

\* the page opened on an item, the URL of its audio resolved as time passes
NextResolve ==
  \/ LoadItem
  \/ Unmount
  \/ \E s \in Sessions : FetchUrlReturns(s)
  \/ Tick

SpecResolve == InitPlayer /\ [][NextResolve]_vars

\* the page opened on an item and the handlers of its audio controls
NextPlayer ==
  \/ LoadItem
  \/ Unmount
  \/ \E s \in Sessions : FetchUrlReturns(s)
  \/ handleAudioError
  \/ AudioTokenReturns
  \/ AudioResignReturns
  \/ AudioPlayReturns
  \/ \E d \in Downloads : handleDownload(d)
  \/ \E d \in Downloads : DownloadHeadReturns(d)
  \/ \E d \in Downloads : DownloadRangeReturns(d)
  \/ \E d \in Downloads : DownloadTokenReturns(d)
  \/ \E d \in Downloads : DownloadResignReturns(d)

SpecPlayer == InitPlayer /\ [][NextPlayer]_vars

C23_InFlight ==
  {d \in Downloads : download[d].pc = "resign" /\ download[d].uid = RealId}
\* C23: of the calls of the Refresh Endpoint for one l_item_id made by the
\* audio error handler and the download handler, at most one is in flight.
C23_OneRefreshInFlight ==
  Cardinality(C23_InFlight)
    + (IF audio.pc = "resign" /\ audio.uid = RealId THEN 1 ELSE 0) <= 1

\* the entry under the key has an expires_at later than the current time
C22_Valid ==
  /\ localStorage.kind = "json"
  /\ localStorage.expires_at /= Null
  /\ localStorage.expires_at > now
\* a run of the effect starts in slot s for a real l_item_id
C22_Resolves(s) ==
  /\ s \in Free(eff) /\ eff'[s].st = "live"
  /\ rlItem' /= NoItem /\ IsReal(rlItem'.l_item_id)
C22_Step ==
  \A s \in Sessions :
    /\ (C22_Resolves(s) /\ C22_Valid) =>
          /\ eff'[s].pc = "idle"
          /\ lItemPublicUrl' = localStorage.public_url
          /\ localStorage' = localStorage
    /\ (C22_Resolves(s) /\ ~C22_Valid) => eff'[s].pc = "fetchUrl"
    /\ (eff[s].pc = "polling" /\ eff'[s].pc = "fetchUrl") => ~C22_Valid
    /\ (eff[s].pc = "fetchUrl" /\ eff'[s].pc /= "fetchUrl") =>
          IF eff[s].mounted /\ lItemPublicUrl' /= lItemPublicUrl
          THEN /\ lItemPublicUrl' /= "none"
               /\ localStorage' =
                    [kind |-> "json", public_url |-> lItemPublicUrl',
                     expires_at |-> now + 3600 * 1000]
          ELSE eff[s].mounted \/ localStorage' = localStorage
\* C22: when a run of the effect resolves the URL of a real l_item_id, an
\* entry of localStorage whose expires_at is later than Date.now() is used
\* (its URL is set, no l_items request is issued, the entry is kept); with
\* an entry that is missing, unparsable, without expires_at or with an
\* expires_at not later than Date.now() the l_items request is issued, and
\* when it delivers a URL to the run that issued it, that URL is stored under
\* the key with expires_at = Date.now() + 3600 s. A request that returns to a
\* run already cleaned up stores nothing.
C22_CacheResolution == [][C22_Step]_vars
C22_Witness ==
  /\ now > 0
  /\ lItemPublicUrl = "signed"
  /\ localStorage = FreshEntry("signed", now)
  /\ \E s \in Sessions : eff[s].st = "live" /\ eff[s].pc = "idle"

\* =====================================================================
\* Refresh Endpoint: successive requests over the rows l_items can hold
\* =====================================================================
\* the row of uid 1: none, or any combination of s3_key, public_url and
\* is_deleted
ResignRows ==
  {NoRow} \cup
  { [uid |-> 1, rl_item_id |-> 1, s3_key |-> k, public_url |-> u,
     is_deleted |-> d] :
      k \in {Null, 1}, u \in {"none", "signed"}, d \in BOOLEAN }

InitResign ==
  /\ owner_id = [i \in Items |-> 1]
  /\ r_item = [i \in Items |-> TRUE]
  /\ rl_items = [i \in Items |-> Null]
  /\ \E row \in ResignRows :
       l_items = [u \in Reqs |-> IF u = 1 THEN row ELSE NoRow]
  /\ s3 = {u \in Reqs : l_items[u].s3_key /= Null}
  /\ tokens = [u \in Users |-> [free |-> 3, paid |-> 10]]
  /\ req = [r \in Reqs |-> InitReq]
  /\ wk = [r \in Reqs |-> InitWk]
  /\ rs = [k \in Refreshes |-> InitRs]
  /\ use_public_acl \in BOOLEAN
  /\ InitLedger /\ InitClient

NextResign ==
  \/ \E k \in Refreshes : RefreshStart(k)
  \/ \E k \in Refreshes : RefreshFetch(k)

SpecResign == InitResign /\ [][NextResign]_vars

\* the request has passed the checks of body and credential and is answered
C24_Authenticated(k) ==
  rs[k].pc = "done" /\ rs[k].body = "ok" /\ rs[k].cred = "valid"
C24_Answer(k, code, u) == rs[k].status = code /\ rs[k].url = u
\* C24: an authenticated refresh request is answered 500 only for a store
\* error, and otherwise by the first of: 404 when l_items has no row of the
\* uid; 410 when the row is_deleted; 200 with the row's public_url when
\* USE_PUBLIC_ACL is "true" and the row has a public_url; without s3_key, 200
\* with the row's public_url when it has one and 400 when it has none; 200
\* with a freshly signed URL.
C24_Priority ==
  \A k \in Refreshes :
    C24_Authenticated(k) =>
      LET row == l_items[rs[k].uid]
      IN /\ rs[k].read
         /\ rs[k].status = 500 => rs[k].error = "DB error fetching l_item"
         /\ rs[k].status /= 500 =>
              IF row = NoRow THEN C24_Answer(k, 404, "none")
              ELSE IF row.is_deleted THEN C24_Answer(k, 410, "none")
              ELSE IF use_public_acl /\ row.public_url /= "none"
                   THEN C24_Answer(k, 200, row.public_url)
              ELSE IF row.s3_key = Null /\ row.public_url /= "none"
                   THEN C24_Answer(k, 200, row.public_url)
              ELSE IF row.s3_key = Null
                   THEN C24_Answer(k, 400, "none")
                        /\ rs[k].error = "No s3_key for l_item"
              ELSE C24_Answer(k, 200, "resigned")
C24_Witness ==
  \E k \in Refreshes :
    /\ C24_Authenticated(k) /\ ~use_public_acl
    /\ l_items[rs[k].uid].s3_key = Null
    /\ l_items[rs[k].uid].public_url = "signed"
    /\ C24_Answer(k, 200, "signed")

\* C25: a step of a refresh request, whatever it answers, leaves rl_items,
\* l_items (public_url included), the bucket and tokens as they were.
C25_NoWrite == [][rs' /= rs => UNCHANGED store]_vars
C25_Witness ==
  \E k \in Refreshes :
    /\ C24_Authenticated(k) /\ C24_Answer(k, 200, "resigned")
    /\ l_items[rs[k].uid].public_url = "signed"

\* the row of the uid exists, is not deleted and has an s3_key
C26_Signable(u) ==
  l_items[u] /= NoRow /\ ~l_items[u].is_deleted /\ l_items[u].s3_key /= Null
C26_Both ==
  \A j \in Refreshes, k \in Refreshes :
    ( /\ j /= k /\ C24_Authenticated(j) /\ C24_Authenticated(k)
      /\ rs[j].uid = rs[k].uid /\ C26_Signable(rs[k].uid)
      /\ rs[j].status /= 500 /\ rs[k].status /= 500 ) =>
        /\ rs[j].status = 200 /\ rs[j].url /= "none"
        /\ rs[k].status = 200 /\ rs[k].url /= "none"
C26_Step ==
  \A k \in Refreshes :
    (rs[k].pc = "fetch" /\ rs'[k].pc = "done" /\ rs'[k].status /= 500) =>
       LET o == ResignOutcome(l_items[rs[k].uid], use_public_acl)
       IN rs'[k].status = o[1] /\ rs'[k].url = o[3]
\* C26: two refresh requests with a valid credential for one uid whose row
\* exists, is not deleted and has an s3_key are both answered 200 with a URL
\* unless the store call of one fails; the answer of a request is determined
\* by the row and the configuration alone, not by an earlier request.
C26_Idempotent == []C26_Both /\ [][C26_Step]_vars
C26_Witness ==
  \E j \in Refreshes, k \in Refreshes :
    /\ rs[k].prior > rs[j].prior /\ rs[j].pc = "done"
    /\ C24_Authenticated(j) /\ C24_Authenticated(k)
    /\ rs[j].uid = rs[k].uid /\ C26_Signable(rs[k].uid)
    /\ C24_Answer(j, 200, "resigned") /\ C24_Answer(k, 200, "resigned")

\* =====================================================================
\* Client Observer: the owner's delete (handleDeleteClick,
\* handleConfirmDelete) next to the pipeline's writes of l_item_id
\* =====================================================================
ownerFrame == <<r_item, l_items, s3, tokens, req, wk, owner_id, refreshVars,
                libVars,
                ledgerVars, creatingListening, resp, polled, playerVars>>

\* the load effect reads the row of the page's id from rl_items
LoadStored ==
  /\ LoadItem
  /\ rlItem' = IF rl_exists[1] THEN [id |-> 1, l_item_id |-> rl_items[1]]
               ELSE NoItem

\* the writes of l_item_id a job of the item makes while the page is open:
\* the sentinel (part_000:98), then the link to the new uid (part_000:113) or
\* the rollback to null (part_000:143); a write to a deleted row matches
\* nothing
PipelineWrites ==
  /\ rl_exists[1]
  /\ \E v \in {Null, ZERO_UUID, RealId} :
       /\ v = ZERO_UUID => rl_items[1] = Null
       /\ v /= ZERO_UUID => rl_items[1] = ZERO_UUID
       /\ rl_items' = [rl_items EXCEPT ![1] = v]
  /\ UNCHANGED <<page, rlItem, eff, lItemPublicUrl, ownerVars, ownerFrame>>

\* click on Delete by the owner: the confirm dialog opens
handleDeleteClick ==
  /\ page = "shown" /\ rlItem /= NoItem /\ del = "idle"
  /\ del' = "confirm"
  /\ UNCHANGED <<rl_items, rl_exists, delete_requested, page, rlItem, eff,
                 lItemPublicUrl, ownerFrame>>

\* Cancel in the dialog
CancelDelete ==
  /\ page = "shown" /\ del = "confirm"
  /\ del' = "idle"
  /\ UNCHANGED <<rl_items, rl_exists, delete_requested, page, rlItem, eff,
                 lItemPublicUrl, ownerFrame>>

\* Delete in the dialog: handleConfirmDelete up to its first await, which is
\* the delete when the l_item_id of rlItem is null and the update otherwise
handleConfirmDelete ==
  /\ page = "shown" /\ rlItem /= NoItem /\ del = "confirm"
  /\ del' = IF rlItem.l_item_id = Null THEN "delete" ELSE "update"
  /\ UNCHANGED <<rl_items, rl_exists, delete_requested, page, rlItem, eff,
                 lItemPublicUrl, ownerFrame>>

\* delete from rl_items where id returns: the row is gone and the page
\* navigates away, or the store has rejected it and the update is issued
DeleteReturns ==
  /\ del = "delete"
  /\ \E ok \in BOOLEAN :
       IF ok
       THEN /\ rl_exists' = [rl_exists EXCEPT ![1] = FALSE]
            /\ del' = "idle"
            /\ page' = "gone"
            /\ eff' = AfterCleanup(eff)
            /\ rlItem' = NoItem
            /\ lItemPublicUrl' = "none"
       ELSE /\ del' = "fallback"
            /\ UNCHANGED <<rl_exists, page, eff, rlItem, lItemPublicUrl>>
  /\ UNCHANGED <<rl_items, delete_requested, ownerFrame>>

\* update rl_items set delete_requested = true where id returns (after a
\* rejected delete: "fallback"; for an item with l_item_id: "update")
RequestReturns ==
  /\ del \in {"fallback", "update"}
  /\ \E ok \in BOOLEAN :
       delete_requested' =
         IF ok /\ rl_exists[1] THEN [delete_requested EXCEPT ![1] = TRUE]
         ELSE delete_requested
  /\ del' = "idle"
  /\ UNCHANGED <<rl_items, rl_exists, page, rlItem, eff, lItemPublicUrl,
                 ownerFrame>>

\* the page just mounted on an item without audio
InitOwner == InitObserver

NextOwner ==
  \/ LoadStored
  \/ Unmount
  \/ PipelineWrites
  \/ handleDeleteClick
  \/ CancelDelete
  \/ handleConfirmDelete
  \/ DeleteReturns
  \/ RequestReturns

SpecOwner == InitOwner /\ [][NextOwner]_vars

\* C27: the step that removes the row of a ContentItem finds its stored
\* l_item_id null - a row whose stored l_item_id is the sentinel or a real id
\* is kept - whatever l_item_id the page holds.
C27_HardDeleteOnlyWithoutAudio ==
  [][\A i \in Items :
       (rl_exists[i] /\ ~rl_exists'[i]) => rl_items[i] = Null]_vars

\* =====================================================================
\* Pipeline: several jobs of one item
\* =====================================================================
C28_Step ==
  \A w \in Reqs :
    /\ (wk[w].pc = "sentinel" /\ rl_items' /= rl_items) =>
          ~IsReal(rl_items[wk[w].item])
    /\ (wk[w].pc = "catch" /\ rl_items' /= rl_items) =>
          /\ wk[w].sent = "applied"
          /\ rl_items[wk[w].item] \in {ZERO_UUID, newUid(w)}
\* C28: the sentinel write of a worker execution changes l_item_id only when
\* it holds no real id, and the rollback write in its catch changes l_item_id
\* only when the execution has set the sentinel itself and the value it
\* removes is the sentinel or its own uid.
C28_NoForeignOverwrite == [][C28_Step]_vars

\* C29: whenever the l_item_id of an item is a real id, l_items has a row
\* with that uid whose s3_key is the key of an object that was uploaded under
\* that uid and whose public_url is set.
C29_LinkedAudioComplete ==
  \A i \in Items :
    IsReal(rl_items[i]) =>
      LET row == l_items[rl_items[i]]
      IN /\ row /= NoRow /\ row.uid = rl_items[i]
         /\ row.s3_key = rl_items[i] /\ rl_items[i] \in s3
         /\ row.public_url /= "none"

C30_Step ==
  \A w \in Reqs :
    (wk[w].pc = "tokupdate" /\ wk'[w].pc = "done") =>
       Total(wk[w].user)' >= wk[w].bal0 - WORKER_MIN_TOKENS_REQUIRED
\* C30: the item holds one l_item_id, so what its jobs debit is at most one
\* requiredTokens: when a worker execution of the item writes its debit, the
\* balance is not lower than the balance at the start of that execution by
\* more than requiredTokens.
C30_OneDebitPerItem == [][C30_Step]_vars

\* =====================================================================
\* Submission Endpoint: a dispatch that fails
\* =====================================================================
C31_Dropped ==
  \A r \in Reqs :
    req[r].inv = "err" =>
      /\ req[r].pc = "done" /\ req[r].status = 500
      /\ wk[r].pc = "none"
      /\ (\A w \in Reqs : wk[w].pc = "none") => rl_items[req[r].item] = Null
C31_Step ==
  \A r \in Reqs :
    (req[r].pc = "invoke" /\ req'[r].inv = "err") =>
       /\ req[r].ref = Null
       /\ UNCHANGED <<store, wk>>
\* C31: a submission whose lambda.invoke fails is answered 500, the step
\* writes no row and starts no worker, and no worker ever runs for that
\* request; the l_item_id it had read as null is still null unless another
\* request's worker has run, so a further submission passes the checks.
C31_DispatchFailure == []C31_Dropped /\ [][C31_Step]_vars
C31_Witness ==
  \E r \in Reqs, q \in Reqs :
    /\ req[r].inv = "err" /\ req[r].status = 500 /\ wk[r].pc = "none"
    /\ req[q].inv = "ok" /\ req[q].status = 200 /\ req[q].ref = Null
    /\ wk[q].pc = "start" /\ rl_items[req[r].item] = Null

\* =====================================================================
\* Client Observer: a poll that returns after the item has changed
\* =====================================================================
NextNavigate ==
  \/ LoadItem
  \/ Unmount
  \/ \E s \in Sessions : PollIssued(s)
  \/ \E s \in Sessions : PollAnswered(s)
  \/ \E s \in Sessions : FetchUrlReturns(s)

SpecNavigate == InitObserver /\ [][NextNavigate]_vars

\* the select of run s returns while rlItem is another item than the one
\* the select was made for
C32_LateFor(s) ==
  /\ eff[s].pc = "polling" /\ eff'[s].pc /= "polling"
  /\ page = "shown" /\ rlItem /= NoItem /\ rlItem.id /= polled[s]
\* C32: when the select of a poll returns while the page holds another item
\* than the one the poll was issued for, neither the l_item_id of rlItem nor
\* lItemPublicUrl changes.
C32_NoCrossItemUpdate ==
  [][\A s \in Sessions :
       C32_LateFor(s) => UNCHANGED <<rlItem, lItemPublicUrl>>]_vars

\* =====================================================================
\* Client Observer: the cached entry against the signature of its URL
\* =====================================================================
\* the worker has signed the URL of l_items.public_url when it made the
\* audio, not later than the page was opened (now = 0), for
\* parseInt(PRESIGNED_URL_EXPIRES, 10) seconds
Expires == 3600
SignedAt == 0
SignatureExpiry == SignedAt + Expires * 1000

\* the entry holds the URL read from the l_items row
C33_FromRow(raw) ==
  /\ raw.kind /= "missing" /\ JSON_parse(raw).ok
  /\ JSON_parse(raw).public_url = "signed"
  /\ Truthy(JSON_parse(raw).expires_at)
\* C33: in a store with signed URLs, the expires_at of a cached entry that
\* holds the URL of the l_items row is not later than the expiry of the
\* signature, so an entry treated as valid holds a URL that has not expired.
C33_CacheWithinSignature ==
  (~use_public_acl /\ C33_FromRow(localStorage)) =>
     /\ JSON_parse(localStorage).expires_at <= SignatureExpiry
     /\ CacheHit(localStorage, now) => now < SignatureExpiry

\* =====================================================================
\* Client Observer: the polls of a session without store errors
\* =====================================================================
\* five polls at each of 5000, 10000, 20000, 40000 and 80000 ms
C34_Polls == 5 * POLLS_PER_STEP
\* run s polls for the item shown and none of its polls returned an error
C34_Session(s) ==
  /\ eff[s].st = "live" /\ rlItem.l_item_id = ZERO_UUID /\ eff[s].errs = 0
NextSubmit ==
  \/ LoadItem
  \/ Unmount
  \/ handleCreateListening
  \/ CreateListeningAnswered
  \/ \E s \in Sessions : TimerFires(s)

SpecSubmit == InitObserver /\ [][NextSubmit]_vars

\* a run of the polling effect with its first poll scheduled
C35_Polling(E) ==
  \E s \in Sessions :
    /\ E[s].st = "live" /\ E[s].timer
    /\ E[s].pollCount = 0 /\ E[s].errs = 0
C35_Step ==
  (creatingListening /\ ~creatingListening' /\ page' = "shown") =>
     /\ resp' \in SubmitAnswers \cup {0}
     /\ resp' /= 200 => UNCHANGED <<rlItem, eff, lItemPublicUrl>>
     /\ (resp' = 200 /\ rlItem /= NoItem) =>
          /\ rlItem' = [rlItem EXCEPT !.l_item_id = ZERO_UUID]
          /\ IF rlItem.l_item_id = ZERO_UUID THEN eff' = eff
             ELSE C35_Polling(eff') /\ ~C35_Polling(AfterCleanup(eff))
\* C35: when handleCreateListening returns after the answer 200, the
\* l_item_id of rlItem is the sentinel and, unless it was the sentinel
\* already, a polling run has been started; after every other answer, and
\* when no request was answered, rlItem, the displayed URL and the runs of
\* the polling effect are as they were.
C35_InProgressOnlyAfter200 == [][C35_Step]_vars
C35_Witness ==
  /\ resp = 200 /\ ~creatingListening
  /\ rlItem.l_item_id = ZERO_UUID /\ C35_Polling(eff)

\* =====================================================================
\* lib/supabase.ts: getCachedUserId, getCachedSessionAccessToken,
\* getPrivateVocabListId and getPrivateRlListId
\* =====================================================================
libFrame == <<store, req, wk, owner_id, refreshVars, ledgerVars, page, rlItem,
              eff, lItemPublicUrl, creatingListening, resp, polled, playerVars,
              ownerVars>>

AuthKeys ==
  {k \in Keys : Getters[k] \in {"getCachedUserId", "getCachedSessionAccessToken"}}
\* what the lookup of key k yields when there is something to yield: the
\* id of the user, the access token, or the id of the list
Value(k) == 10 + k
LookupOutcomes == {"found", "absent", "throw"}

\* `if (cachedUserId)`, `cachedPrivateVocabListIds.has(userId)`
Cached(k) == cached[k] /= Null

\* variant of GetCached without the test of the promise in flight
GetCached_NoShare(c, k) ==
  /\ call[c].pc = "idle"
  /\ \A q \in Calls : q < c => call[q].pc /= "idle"
  /\ IF Cached(k)
     THEN /\ call' = [call EXCEPT ![c] = [key |-> k, pc |-> "done", p |-> Null,
                                          value |-> cached[k]]]
          /\ UNCHANGED <<lookup, promise>>
     ELSE /\ lookup' = [lookup EXCEPT ![c] = [key |-> k, pc |-> "select",
                                              result |-> Null]]
          /\ promise' = [promise EXCEPT ![k] = c]
          /\ call' = [call EXCEPT ![c] = [key |-> k, pc |-> "waiting",
                                          p |-> c, value |-> Null]]
  /\ UNCHANGED <<cached, libFrame>>

\* a call of the getter of key k up to its return: the cached value, the
\* promise in flight, or a new async function that runs up to its first
\* await and is stored as the promise of the key
GetCached(c, k) ==
  /\ call[c].pc = "idle"
  /\ \A q \in Calls : q < c => call[q].pc /= "idle"
  /\ IF Cached(k)
     THEN /\ call' = [call EXCEPT ![c] = [key |-> k, pc |-> "done", p |-> Null,
                                          value |-> cached[k]]]
          /\ UNCHANGED <<lookup, promise>>
     ELSE IF promise[k] /= Null
     THEN /\ call' = [call EXCEPT ![c] = [key |-> k, pc |-> "waiting",
                                          p |-> promise[k], value |-> Null]]
          /\ UNCHANGED <<lookup, promise>>
     ELSE /\ lookup' = [lookup EXCEPT ![c] = [key |-> k, pc |-> "select",
                                              result |-> Null]]
          /\ promise' = [promise EXCEPT ![k] = c]
          /\ call' = [call EXCEPT ![c] = [key |-> k, pc |-> "waiting",
                                          p |-> c, value |-> Null]]
  /\ UNCHANGED <<cached, libFrame>>

\* the async function l ends: `return`, then its finally
Settled(l, v) ==
  /\ lookup' = [lookup EXCEPT ![l] = [@ EXCEPT !.pc = "settled", !.result = v]]
  /\ promise' = [promise EXCEPT ![lookup[l].key] = Null]

\* auth.getUser / auth.getSession returns, or the select of the list does
LookupReturns(l) ==
  /\ lookup[l].pc = "select"
  /\ LET k == lookup[l].key
     IN \E o \in LookupOutcomes :
          IF o = "throw" THEN Settled(l, Null) /\ cached' = cached
          ELSE IF o = "found"
          THEN Settled(l, Value(k)) /\ cached' = [cached EXCEPT ![k] = Value(k)]
          ELSE IF k \in AuthKeys
          THEN Settled(l, Null) /\ cached' = [cached EXCEPT ![k] = Null]
          ELSE /\ lookup' = [lookup EXCEPT ![l] = [@ EXCEPT !.pc = "insert"]]
               /\ UNCHANGED <<promise, cached>>
  /\ UNCHANGED <<call, libFrame>>

\* the insert of a list that was not found returns
InsertReturns(l) ==
  /\ lookup[l].pc = "insert"
  /\ LET k == lookup[l].key
     IN \E o \in LookupOutcomes :
          IF o = "found"
          THEN Settled(l, Value(k)) /\ cached' = [cached EXCEPT ![k] = Value(k)]
          ELSE Settled(l, Null) /\ cached' = cached
  /\ UNCHANGED <<call, libFrame>>

\* the caller's await of the promise it was handed resumes
CallResumes(c) ==
  /\ call[c].pc = "waiting"
  /\ lookup[call[c].p].pc = "settled"
  /\ call' = [call EXCEPT ![c] = [@ EXCEPT !.pc = "done",
                                           !.value = lookup[call[c].p].result]]
  /\ UNCHANGED <<cached, promise, lookup, libFrame>>

\* the two listeners of supabase.auth.onAuthStateChange
AuthStateChange ==
  /\ \E session \in BOOLEAN :
       cached' = [k \in Keys |->
                    IF k \in AuthKeys
                    THEN (IF session THEN Value(k) ELSE Null)
                    ELSE cached[k]]
  /\ cached' /= cached
  /\ UNCHANGED <<promise, lookup, call, libFrame>>

NextCache ==
  \/ \E c \in Calls, k \in Keys : GetCached(c, k)
  \/ \E l \in Calls : LookupReturns(l)
  \/ \E l \in Calls : InsertReturns(l)
  \/ \E c \in Calls : CallResumes(c)
  \/ AuthStateChange

SpecCache == InitObserver /\ [][NextCache]_vars

\* the lookups of key k whose network request has not returned
C36_InFlight(k) ==
  {l \in Calls : lookup[l].key = k /\ lookup[l].pc \in {"select", "insert"}}
C36_Entries ==
  /\ \A k \in Keys :
       /\ Cardinality(C36_InFlight(k)) <= 1
       /\ promise[k] = Null => C36_InFlight(k) = {}
       /\ promise[k] /= Null => C36_InFlight(k) = {promise[k]}
  /\ \A c \in Calls :
       (call[c].pc = "done" /\ call[c].p /= Null) =>
          /\ lookup[call[c].p].key = call[c].key
          /\ call[c].value = lookup[call[c].p].result
C36_Step ==
  \A c \in Calls :
    (call[c].pc = "idle" /\ call'[c].pc /= "idle") =>
       LET k == call'[c].key
       IN /\ Cached(k) =>
               /\ call'[c].pc = "done" /\ call'[c].value = cached[k]
               /\ UNCHANGED <<lookup, promise>>
          /\ (~Cached(k) /\ promise[k] /= Null) =>
               /\ call'[c].pc = "waiting" /\ call'[c].p = promise[k]
               /\ UNCHANGED <<lookup, promise>>
\* C36: for each of the four getters and each key, at most one lookup is in
\* flight and the promise stored for the key is that lookup, so the entry is
\* gone once the lookup has ended with or without a value; a call made while
\* the lookup is in flight is handed its promise and gets its result, and
\* a call made while a value is cached returns it without a lookup.
C36_SingleFlight == []C36_Entries /\ [][C36_Step]_vars
C36_Witness ==
  \E k \in Keys, a \in Calls, b \in Calls, c \in Calls :
    /\ a /= b /\ call[a].key = k /\ call[b].key = k /\ call[c].key = k
    /\ call[a].pc = "done" /\ call[b].pc = "done" /\ call[c].pc = "done"
    /\ call[a].p = a /\ call[b].p = a /\ call[c].p = Null
    /\ lookup[a].pc = "settled" /\ promise[k] = Null
    /\ call[a].value = Value(k) /\ call[b].value = Value(k)
    /\ call[c].value = Value(k)

====
